---------------------------- MODULE Spec2Model ----------------------------
(***************************************************************************)
(* State-machine model of the WavSlicerChiptune tools.                     *)
(*                                                                         *)
(* fur_gen (source/fur_gen.c): one run of main(), from argument parsing    *)
(* through directory scan, WAV loading, container assembly in the growable *)
(* output buffer, pointer patching, compression and the output file.       *)
(*                                                                         *)
(* Bytes are naturals 0..255, C strings are sequences of character codes   *)
(* (without the terminating NUL), buffers and files are byte sequences.    *)
(* Offsets are 0-based as in the C code; sequence indices are offset + 1.  *)
(***************************************************************************)
EXTENDS Integers, Sequences, FiniteSets, TLC

(***************************************************************************)
(* Bounds of the explored inputs.                                          *)
(***************************************************************************)
\* Largest number of entries of an enumerated (small) input directory.
MaxDirEntries == 3
\* Largest number of calls in an explored sequence of buffer operations or
\* of directory-block writers.
MaxOps == 3

\* Largest number of chunks of an enumerated WAV image, and the number of
\* iterations after which a chunk scan is followed no further.
MaxChunks == 2
MaxScanSteps == 8
\* Largest length of an enumerated argument of shell_escape.
MaxInputLen == 3

(***************************************************************************)
(* Program constants (fur_gen.c).                                          *)
(***************************************************************************)
MAX_SAMPLES    == 120
WAV_HEADER_MIN == 44
SM_ENTRIES     == 120
FURNACE_VER    == 228
\* b->cap = 4 * 1024 * 1024 in buf_init
BUF_INIT_CAP   == 4194304
\* sizeof(samples[n].filename) - 1, the strncpy limit of the directory scan
NAME_MAX_COPY  == 255

Min(a, b) == IF a < b THEN a ELSE b

(***************************************************************************)
(* Character codes and strings.                                            *)
(***************************************************************************)
CH_NUL   == 0
CH_SPACE == 32
CH_PLUS  == 43
CH_MINUS == 45
CH_DOT   == 46
CH_0     == 48
CH_9     == 57

\* The literals of fur_gen.c, as character codes.
STR_DOTWAV == << 46, 119, 97, 118 >>                      \* ".wav"
STR_RIFF   == << 82, 73, 70, 70 >>                        \* "RIFF"
STR_WAVE   == << 87, 65, 86, 69 >>                        \* "WAVE"
STR_FMT    == << 102, 109, 116, 32 >>                     \* "fmt "
STR_DATA   == << 100, 97, 116, 97 >>                      \* "data"
STR_INFO   == << 73, 78, 70, 79 >>                        \* "INFO"
STR_ADIR   == << 65, 68, 73, 82 >>                        \* "ADIR"
STR_INS2   == << 73, 78, 83, 50 >>                        \* "INS2"
STR_SMP2   == << 83, 77, 80, 50 >>                        \* "SMP2"
STR_PATN   == << 80, 65, 84, 78 >>                        \* "PATN"
STR_NA     == << 78, 65 >>                                \* "NA"
STR_SM     == << 83, 77 >>                                \* "SM"
STR_NE     == << 78, 69 >>                                \* "NE"
STR_EN     == << 69, 78 >>                                \* "EN"
STR_HELP   == << 45, 45, 104, 101, 108, 112 >>            \* "--help"
STR_H      == << 45, 104 >>                               \* "-h"
\* "-Furnace module-"
STR_MAGIC  == << 45, 70, 117, 114, 110, 97, 99, 101, 32,
                 109, 111, 100, 117, 108, 101, 45 >>

\* tolower() in the C locale.
ToLower(c) == IF c >= 65 /\ c <= 90 THEN c + 32 ELSE c

\* strcmp(a, b): sign of the first differing unsigned char, the NUL included.
RECURSIVE StrCmpFrom(_, _, _)
StrCmpFrom(a, b, i) ==
    LET ca == IF i <= Len(a) THEN a[i] ELSE CH_NUL
        cb == IF i <= Len(b) THEN b[i] ELSE CH_NUL
    IN  IF ca # cb THEN (IF ca < cb THEN -1 ELSE 1)
        ELSE IF ca = CH_NUL THEN 0
        ELSE StrCmpFrom(a, b, i + 1)

strcmp(a, b) == StrCmpFrom(a, b, 1)

\* strcasecmp(a, b) = 0
StrCaseEq(a, b) ==
    /\ Len(a) = Len(b)
    /\ \A i \in 1..Len(a) : ToLower(a[i]) = ToLower(b[i])

\* strncpy(dst, src, 255); dst[255] = '\0'
StrNCopy(s) == SubSeq(s, 1, Min(Len(s), NAME_MAX_COPY))

\* Index of the last '.' of s (strrchr), 0 when there is none.
RECURSIVE LastDotFrom(_, _)
LastDotFrom(s, i) ==
    IF i = 0 THEN 0
    ELSE IF s[i] = CH_DOT THEN i
    ELSE LastDotFrom(s, i - 1)

\* char *dot = strrchr(name, '.'); if (dot) *dot = '\0';
StripExt(s) ==
    LET d == LastDotFrom(s, Len(s))
    IN  IF d = 0 THEN s ELSE SubSeq(s, 1, d - 1)

(***************************************************************************)
(* Fixed-width little-endian integers.                                     *)
(***************************************************************************)
U8(v)  == v % 256
U16(v) == v % 65536

\* Little-endian bytes of the low 16 / 32 bits of v.  \div and % are floor
\* division and its remainder, so a negative v yields its two's-complement
\* bytes ((uint32_t)-1 is 255,255,255,255).  Values are within 32 bits signed.
U16LE(v) == << v % 256, (v \div 256) % 256 >>
U32LE(v) == << v % 256, (v \div 256) % 256,
               (v \div 65536) % 256, (v \div 16777216) % 256 >>

\* rd16 / rd32 at 0-based offset off of byte sequence p.
rd16(p, off) == p[off + 1] + 256 * p[off + 2]
rd32(p, off) == p[off + 1] + 256 * p[off + 2]
                + 65536 * p[off + 3] + 16777216 * p[off + 4]
\* rd32 yields a value >= 2^31 (beyond the integers evaluated here).
rd32big(p, off) == p[off + 4] >= 128
\* (int)rd32(p): the same 32 bits read as a signed int.
rd32int(p, off) == p[off + 1] + 256 * p[off + 2] + 65536 * p[off + 3]
                   + 16777216 * (IF p[off + 4] >= 128 THEN p[off + 4] - 256 ELSE p[off + 4])

\* n copies of byte v.
Fill(v, n) == [i \in 1..n |-> v]

\* Integers of the widths of long and unsigned long, which reach beyond the
\* 31 bits evaluated here: Wide(h, l) is the value h * 65536 + l, 0 <= l < 65536.
Wide(h, l) == [h |-> h, l |-> l]
WideOf(x) == Wide(x \div 65536, x % 65536)
WAdd(a, b) == Wide(a.h + b.h + (a.l + b.l) \div 65536, (a.l + b.l) % 65536)
WLe(a, b) == a.h < b.h \/ (a.h = b.h /\ a.l <= b.l)
WLt(a, b) == ~WLe(b, a)
\* The value as an integer, when it is within 32 bits signed.
WInt(a) == a.h * 65536 + a.l

\* The width of long and unsigned long: 64 bits on Linux x86-64 (LP64), 32
\* bits on Windows with MinGW (LLP64).
LongBits(t) == IF t = "windows" THEN 32 ELSE 64
\* Conversion to unsigned long: the value modulo 2^bits.  (No value of the
\* 64-bit runs is negative or reaches 2^34, so there it is the identity.)
ToUnsignedLong(a, bits) == IF bits = 32 THEN Wide(a.h % 65536, a.l) ELSE a
\* Conversion to long, as GCC defines it for values out of range: the value
\* modulo 2^bits, in the signed range.
ToLong(a, bits) ==
    IF bits = 32 THEN Wide(((a.h + 32768) % 65536) - 32768, a.l) ELSE a
\* The result of a signed operation is representable in long.
FitsLong(a, bits) == bits = 64 \/ (a.h >= -32768 /\ a.h <= 32767)

\* rd32 as unsigned long.
rd32w(p, o) == Wide(rd16(p, o + 2), rd16(p, o))

(***************************************************************************)
(* Constant tables.                                                        *)
(***************************************************************************)
POST_ORDER ==
    << 1,3,0,0,0,0,0,0,128,63,0,0,0,0,0,1,
       1,0,0,1,0,0,1,4,0,0,1,1,0,0,0,0,
       2,0,1,0,0,0,0,0,0,0,0,0,0,0,0,0,
       71,101,110,101,114,105,99,32,80,67,77,32,68,65,67,0,
       0,0,0,0,0,0,0,128,63,0,0,0,0,0,0,0,
       0,34,0,0,0,0,0,0,0,1,0,1,0,0,0,208,
       255,1,0,208,255,2,0,208,255,3,0,208,255,4,0,208,
       255,5,0,208,255,6,0,208,255,7,0,208,255,8,0,208,
       255,9,0,208,255,10,0,208,255,11,0,208,255,12,0,208,
       255,13,0,208,255,14,0,208,255,15,0,208,255,0,0,224,
       255,1,0,224,255,2,0,224,255,3,0,224,255,4,0,224,
       255,5,0,224,255,6,0,224,255,7,0,224,255,8,0,224,
       255,9,0,224,255,10,0,224,255,11,0,224,255,12,0,224,
       255,13,0,224,255,14,0,224,255,15,0,224,255,1,0,0,
       0,0,0,0,0,0,1,4,6,6,6,6,6,6,6,6,
       6,6,6,6,6,6,6,0,0,0,0,0,0,0,0,0,
       0,0,0,0 >>

CONFIG_FLAGS ==
    << 220,67,0,2,2,1,0,0,0,0,1,1,0,0,0,0,
       0,0,0,0,1,1 >>

\* 60.0f as IEEE-754 single precision, little-endian (0x42700000).
FLOAT_60_LE == << 0, 0, 112, 66 >>

\* Offsets inside the post-order section that are patched at run time.
PO_VT_NUM == 38      \* +0x26
PO_VT_DEN == 40      \* +0x28
PO_ADIR0  == 248     \* +0xF8
PO_ADIR1  == 252     \* +0xFC
PO_ADIR2  == 256     \* +0x100

(***************************************************************************)
(* The growable output buffer.  data holds the len bytes written so far;   *)
(* cap is the allocated capacity.  patches is a history: it maps each       *)
(* offset that was patched to the patches applied there, in order, each    *)
(* with its width, its bytes and the buffer length at that time.           *)
(***************************************************************************)
buf_init == [data |-> << >>, len |-> 0, cap |-> BUF_INIT_CAP, patches |-> << >>]

\* Variant of GrowCap: the capacity is doubled once, not until it suffices.
GrowCap_Once(cap, need) == IF need > cap THEN cap * 2 ELSE cap

\* while (b->len + extra > b->cap) b->cap *= 2;
RECURSIVE GrowCap(_, _)
GrowCap(cap, need) == IF need > cap THEN GrowCap(cap * 2, need) ELSE cap

buf_ensure(b, extra) == [b EXCEPT !.cap = GrowCap(@, b.len + extra)]

\* What buf_write, buf_zeros and buf_fill do to the header when they append
\* n bytes: buf_ensure(b, n); ...; b->len += n.
EnsureAndAdvance(b, n) == [buf_ensure(b, n) EXCEPT !.len = @ + n]

\* buf_ensure, memcpy at data + len, len += n
buf_write(b, src) == [EnsureAndAdvance(b, Len(src)) EXCEPT !.data = @ \o src]

buf_u8(b, v)    == buf_write(b, << U8(v) >>)
buf_u16le(b, v) == buf_write(b, U16LE(U16(v)))
buf_u32le(b, v) == buf_write(b, U32LE(v))
buf_i32le(b, v) == buf_u32le(b, v)
buf_float_le_60(b) == buf_write(b, FLOAT_60_LE)
\* buf_ensure, memset at data + len, len += n
buf_zeros(b, n) == [EnsureAndAdvance(b, n) EXCEPT !.data = @ \o Fill(0, n)]
buf_fill(b, v, n) == [EnsureAndAdvance(b, n) EXCEPT !.data = @ \o Fill(v, n)]
buf_str(b, s)   == buf_write(b, s \o << CH_NUL >>)
buf_tag(b, tag) == buf_write(b, SubSeq(tag, 1, 4))

\* Overwrite of n bytes at offset off.  A store at or beyond the bytes held
\* does not touch a written byte, so data is unchanged there; the history
\* records it.
PatchBytes(b, off, bytes) ==
    LET n == Len(bytes)
    IN  [b EXCEPT
           !.data = IF off + n <= Len(b.data)
                    THEN (IF n = 4
                          THEN [@ EXCEPT ![off + 1] = bytes[1], ![off + 2] = bytes[2],
                                         ![off + 3] = bytes[3], ![off + 4] = bytes[4]]
                          ELSE [@ EXCEPT ![off + 1] = bytes[1], ![off + 2] = bytes[2]])
                    ELSE @,
           !.patches = LET p == [n |-> n, bytes |-> bytes, len |-> b.len]
                       IN  IF off \in DOMAIN @
                           THEN [@ EXCEPT ![off] = Append(@, p)]
                           ELSE (off :> << p >>) @@ @]

buf_patch_u32(b, off, v) == PatchBytes(b, off, U32LE(v))
buf_patch_u16(b, off, v) == PatchBytes(b, off, U16LE(U16(v)))


(***************************************************************************)
(* Block writers.  Each takes the buffer and returns the buffer after the  *)
(* block has been appended (write_info also returns its two out-params).   *)
(***************************************************************************)
\* Variant of InfoCounts: the wavetable count declared as n.
InfoCounts_WavN(n) ==
       U16LE(U16(n)) \o << 4, 16 >> \o U16LE(U16(n))
    \o U16LE(U16(n)) \o U16LE(U16(n)) \o U16LE(U16(n))

\* INFO payload offsets 0x0A-0x15: the declared counts.
InfoCounts(n) ==
       U16LE(U16(n))                           \* ordersLen
    \o << 4, 16 >>                             \* highlight_a, highlight_b
    \o U16LE(U16(n))                           \* insCount
    \o U16LE(0)                                \* wavCount
    \o U16LE(U16(n))                           \* smpCount
    \o U16LE(U16(n))                           \* patCount

\* INFO head section: payload offsets 0x00-0x111 (274 bytes).
InfoHead(n, speed, pattern_rows) ==
       << 0, U8(speed), U8(speed), 1 >>        \* timeBase, speed1, speed2, arpSpeed
    \o FLOAT_60_LE                             \* ticksPerSec
    \o U16LE(U16(pattern_rows))                \* patternLen
    \o InfoCounts(n)
    \o U16LE(0)                                \* reserved/channels
    \o << 192 >>                               \* system[0] = 0xC0
    \o Fill(0, 31)                             \* systems 1-31
    \o Fill(64, 32)                            \* volumes
    \o Fill(0, 32)                             \* pannings
    \o Fill(0, 132)                            \* reserved/flags
    \o CONFIG_FLAGS

\* for (i = 0; i < n; i++) buf_u32le(b, 0);
PtrPlaceholders(n) == Fill(0, 4 * n)

\* for (i = 0; i < n; i++) buf_u8(b, (uint8_t)i);
OrderTable(n) == [k \in 1..n |-> U8(k - 1)]

\* Variant of write_info: the virtual tempo is patched before the post-order
\* section has been written.
write_info_PatchEarly(b, n, speed, pattern_rows, vt_num, vt_den) ==
    LET b1 == buf_tag(b, STR_INFO)
        size_slot == b1.len
        b2 == buf_u32le(b1, 0)
        payload_start == b2.len
        b3 == buf_write(b2, InfoHead(n, speed, pattern_rows))
        ptr_table_off == b3.len
        b4 == buf_write(b3, PtrPlaceholders(n) \o PtrPlaceholders(n) \o PtrPlaceholders(n))
        b5 == buf_write(b4, OrderTable(n))
        post_order_off == b5.len
        b6 == buf_patch_u16(b5, post_order_off + PO_VT_NUM, vt_num)
        b7 == buf_patch_u16(b6, post_order_off + PO_VT_DEN, vt_den)
        b8 == buf_write(b7, POST_ORDER)
        info_size == (b8.len - payload_start)
    IN  [b |-> buf_patch_u32(b8, size_slot, info_size),
         ptr_table_off |-> ptr_table_off,
         post_order_off |-> post_order_off]

write_info(b, n, speed, pattern_rows, vt_num, vt_den) ==
    LET b1 == buf_tag(b, STR_INFO)
        size_slot == b1.len
        b2 == buf_u32le(b1, 0)
        payload_start == b2.len
        b3 == buf_write(b2, InfoHead(n, speed, pattern_rows))
        ptr_table_off == b3.len
        b4 == buf_write(b3, PtrPlaceholders(n) \o PtrPlaceholders(n) \o PtrPlaceholders(n))
        b5 == buf_write(b4, OrderTable(n))
        post_order_off == b5.len
        b6 == buf_write(b5, POST_ORDER)
        b7 == buf_patch_u16(b6, post_order_off + PO_VT_NUM, vt_num)
        b8 == buf_patch_u16(b7, post_order_off + PO_VT_DEN, vt_den)
        info_size == (b8.len - payload_start)
    IN  [b |-> buf_patch_u32(b8, size_slot, info_size),
         ptr_table_off |-> ptr_table_off,
         post_order_off |-> post_order_off]

\* Body shared by write_adir_ins and write_adir_smp (the two are identical).
AdirGroup(n) ==
       U32LE(1)                                \* numGroups
    \o << 0, U8(n) >>                          \* start, count
    \o U16LE(0)                                \* padding
    \o [k \in 1..(n - 1) |-> U8(k)]            \* for (i = 1; i < n; i++)

write_adir_ins(b, n) ==
    LET bsz == (n + 7)
    IN  buf_write(buf_u32le(buf_tag(b, STR_ADIR), bsz), AdirGroup(n))

write_adir_wav(b) ==
    buf_u32le(buf_u32le(buf_tag(b, STR_ADIR), 4), 0)

\* Variant of write_adir_smp: the declared size is one byte too large.
write_adir_smp_Plus1(b, n) ==
    LET bsz == (n + 8)
    IN  buf_write(buf_u32le(buf_tag(b, STR_ADIR), bsz), AdirGroup(n))

write_adir_smp(b, n) ==
    LET bsz == (n + 7)
    IN  buf_write(buf_u32le(buf_tag(b, STR_ADIR), bsz), AdirGroup(n))

\* Variant of SampleMap: every instrument is mapped to sample 0.
SampleMap_Index0(sample_index) ==
    LET e == U16LE(48) \o U16LE(0)
    IN  [k \in 1..(4 * SM_ENTRIES) |-> e[((k - 1) % 4) + 1]]

\* SM sub-block entries: SM_ENTRIES times (u16 note 48, u16 sample_index).
SampleMap(sample_index) ==
    LET e == U16LE(48) \o U16LE(U16(sample_index))
    IN  [k \in 1..(4 * SM_ENTRIES) |-> e[((k - 1) % 4) + 1]]

\* NE sub-block entries: 120 times (0x0F, 0xFF).
NoteEnv == [k \in 1..240 |-> IF k % 2 = 1 THEN 15 ELSE 255]

write_ins2(b, inst_name, sample_index) ==
    LET b1 == buf_tag(b, STR_INS2)
        size_slot == b1.len
        b2 == buf_u32le(b1, 0)
        payload_start == b2.len
        name_len == Len(inst_name)
        b3 == buf_write(b2,
                   U16LE(FURNACE_VER) \o U16LE(4)              \* version, type
                \o STR_NA \o U16LE(U16(name_len + 1))
                \o inst_name \o << 0 >>                        \* buf_str
                \o STR_SM \o U16LE(484)
                \o << 0, 0, 1, 31 >>                           \* SM header
                \o SampleMap(sample_index)
                \o STR_NE \o U16LE(241)
                \o << 1 >>                                     \* enabled flag
                \o NoteEnv
                \o STR_EN)
    IN  buf_patch_u32(b3, size_slot, (b3.len - payload_start))

write_smp2(b, s) ==
    LET b1 == buf_tag(b, STR_SMP2)
        size_slot == b1.len
        b2 == buf_u32le(b1, 0)
        payload_start == b2.len
        b3 == buf_write(b2,
                   s.name \o << 0 >>                            \* buf_str(name)
                \o U32LE((s.n_samples))
                \o U32LE((s.sample_rate))                   \* compatRate
                \o U32LE((s.sample_rate))                   \* c4Rate
                \o << U8(s.bit_depth), 0, 1, 0 >>              \* depth, loopMode, brr, dpcm
                \o U32LE(-1)                 \* loopStart = -1
                \o U32LE(-1)                 \* loopEnd = -1
                \o Fill(255, 16)
                \o SubSeq(s.pcm, 1, s.pcm_len))                \* raw PCM data
    IN  buf_patch_u32(b3, size_slot, (b3.len - payload_start))

write_patn(b, index) ==
    buf_write(buf_u32le(buf_tag(b, STR_PATN), 9),
                 << 0, 0 >>                                    \* subsong, channel
              \o U16LE(U16(index))                             \* patIndex
              \o << 0, 3, 60, U8(index), 255 >>)


(***************************************************************************)
(* WAV reading.  A file is [exists, bytes]; io names what the environment  *)
(* does to this call: "ok", or a failing malloc / fread.                   *)
(* Sizes are those of an LP64 build: long and unsigned long are 64 bits,   *)
(* files are smaller than 2^31 bytes, so off + 8 + csz never wraps.        *)
(***************************************************************************)
IoOutcomes == {"ok", "fd_alloc_fails", "fread_fails", "pcm_alloc_fails"}

TagAt(fd, off, tag) == SubSeq(fd, off + 1, off + 4) = tag

\* The chunk loop of read_wav: while (off + 8 <= fsize) { ... }.
\* st = [err, fmt_ok, chans, rate, bits, pcm_src, pcm_len]; pcm_src is the
\* offset of the PCM bytes in fd, -1 for NULL.
RECURSIVE ScanChunks(_, _, _, _)
ScanChunks(fd, fsize, off, st) ==
    IF ~(off + 8 <= fsize) THEN st
    ELSE
      LET big == rd32big(fd, off + 4)
          csz == IF big THEN 0 ELSE rd32(fd, off + 4)
          \* off += 8 + csz; if (csz & 1) off++;  (past the end when csz >= 2^31)
          next == IF big THEN fsize
                  ELSE off + 8 + csz + (IF csz % 2 = 1 THEN 1 ELSE 0)
      IN  IF TagAt(fd, off, STR_FMT)
          THEN IF big \/ off + 8 + csz > fsize \/ csz < 16
               THEN [st EXCEPT !.err = "bad_fmt"]
               ELSE IF rd16(fd, off + 8) # 1
               THEN [st EXCEPT !.err = "not_pcm"]
               ELSE ScanChunks(fd, fsize, next,
                        [st EXCEPT !.chans = rd16(fd, off + 10),
                                   !.rate = rd32int(fd, off + 12),
                                   !.bits = rd16(fd, off + 22),
                                   !.fmt_ok = TRUE])
          ELSE IF TagAt(fd, off, STR_DATA)
          THEN ScanChunks(fd, fsize, next,
                   [st EXCEPT !.pcm_len = IF big \/ off + 8 + csz > fsize
                                          THEN fsize - off - 8
                                          ELSE csz,
                              !.pcm_src = off + 8])
          ELSE ScanChunks(fd, fsize, next, st)

ScanInit == [err |-> "", fmt_ok |-> FALSE, chans |-> 0, rate |-> 0, bits |-> 0,
             pcm_src |-> -1, pcm_len |-> 0]

WavFail(why) == [rc |-> -1, err |-> why, pcm |-> << >>, pcm_len |-> 0, channels |-> 0,
                 n_samples |-> 0, sample_rate |-> 0, bit_depth |-> 0]

\* read_wav(path, out): rc and, when rc = 0, the fields stored in *out.
read_wav(file, io) ==
    LET fd    == file.bytes
        fsize == Len(fd)
        st    == ScanChunks(fd, fsize, 12, ScanInit)
    IN  IF ~file.exists THEN WavFail("cannot_open")
        ELSE IF fsize < WAV_HEADER_MIN THEN WavFail("too_small")
        ELSE IF io = "fd_alloc_fails" THEN WavFail("alloc_failed")
        ELSE IF io = "fread_fails" THEN WavFail("read_failed")
        ELSE IF ~TagAt(fd, 0, STR_RIFF) \/ ~TagAt(fd, 8, STR_WAVE)
             THEN WavFail("not_valid_wav")
        ELSE IF st.err # "" THEN WavFail(st.err)
        ELSE IF ~st.fmt_ok \/ st.pcm_src = -1 \/ st.pcm_len <= 0
             THEN WavFail("missing_fmt_data")
        ELSE IF st.chans # 1 THEN WavFail("not_mono")
        ELSE IF st.bits # 8 /\ st.bits # 16 THEN WavFail("bad_bit_depth")
        ELSE IF io = "pcm_alloc_fails" THEN WavFail("pcm_alloc_failed")
        ELSE [rc |-> 0, err |-> "",
              pcm |-> SubSeq(fd, st.pcm_src + 1, st.pcm_src + st.pcm_len),
              pcm_len |-> st.pcm_len,
              channels |-> st.chans,
              n_samples |-> st.pcm_len \div (st.bits \div 8),
              sample_rate |-> st.rate,
              bit_depth |-> st.bits]

\* The read_wav failures that are format errors of the file itself.
FormatErrors == {"too_small", "not_valid_wav", "bad_fmt", "not_pcm",
                 "missing_fmt_data", "not_mono", "bad_bit_depth"}


(***************************************************************************)
(* Numeric argument parsing.  StrToNum models strtod (frac = TRUE) and     *)
(* strtol base 10 (frac = FALSE) on the decimal syntax: spaces, an         *)
(* optional sign, digits and, for strtod, a radix point and more digits.   *)
(* The value is the exact rational num / den; rest is the text at endptr.  *)
(* Arguments explored have at most 9 digits, so errno stays 0.             *)
(***************************************************************************)
IsDigit(c) == c >= CH_0 /\ c <= CH_9

RECURSIVE SkipSpaces(_, _)
SkipSpaces(s, i) ==
    IF i <= Len(s) /\ s[i] = CH_SPACE THEN SkipSpaces(s, i + 1) ELSE i

RECURSIVE ScanDigits(_, _)
ScanDigits(s, i) ==
    IF i <= Len(s) /\ IsDigit(s[i]) THEN ScanDigits(s, i + 1) ELSE i

\* Value of the digits among s[i..j-1], skipping a radix point.
RECURSIVE DigitsValue(_, _, _, _)
DigitsValue(s, i, j, acc) ==
    IF i >= j THEN acc
    ELSE IF IsDigit(s[i]) THEN DigitsValue(s, i + 1, j, 10 * acc + (s[i] - CH_0))
    ELSE DigitsValue(s, i + 1, j, acc)

RECURSIVE Pow10(_)
Pow10(k) == IF k = 0 THEN 1 ELSE 10 * Pow10(k - 1)

StrToNum(s, frac) ==
    LET a       == SkipSpaces(s, 1)
        hasSign == a <= Len(s) /\ (s[a] = CH_PLUS \/ s[a] = CH_MINUS)
        neg     == hasSign /\ s[a] = CH_MINUS
        b       == IF hasSign THEN a + 1 ELSE a
        c       == ScanDigits(s, b)
        hasDot  == frac /\ c <= Len(s) /\ s[c] = CH_DOT
        d       == IF hasDot THEN ScanDigits(s, c + 1) ELSE c
        nInt    == c - b
        nFrac   == IF hasDot THEN d - (c + 1) ELSE 0
        conv    == nInt + nFrac > 0
        mag     == DigitsValue(s, b, d, 0)
    IN  IF conv
        THEN [num |-> IF neg THEN -mag ELSE mag, den |-> Pow10(nFrac),
              rest |-> SubSeq(s, d, Len(s)), errno |-> 0]
        ELSE [num |-> 0, den |-> 1, rest |-> s, errno |-> 0]

strtod(s) == StrToNum(s, TRUE)
strtol(s) == StrToNum(s, FALSE)

\* Variant of ArgRejected: zero is accepted (v < 0 instead of v <= 0).
ArgRejected_ZeroOk(r) == r.rest # << >> \/ r.errno # 0 \/ r.num < 0

\* if (*endptr || errno || v <= 0)
ArgRejected(r) == r.rest # << >> \/ r.errno # 0 \/ r.num <= 0

\* (int)x for the double x = num / den, x > 0: truncation.
TruncToInt(x) == x.num \div x.den

\* (int)round(p / q) for p, q > 0: halfway cases away from zero.
RoundDiv(p, q) == (2 * p + q) \div (2 * q)

(***************************************************************************)
(* The directory scan.                                                     *)
(***************************************************************************)
\* Variant of IsWavName: the extension is not compared.
IsWavName_NoExt(fn) == ~(Len(fn) < 5)

\* flen >= 5 and the last four characters are ".wav", case-insensitively.
IsWavName(fn) ==
    /\ ~(Len(fn) < 5)
    /\ StrCaseEq(SubSeq(fn, Len(fn) - 3, Len(fn)), STR_DOTWAV)

\* The record the scan stores for directory entry fn (pcm = NULL).
NewSample(fn) ==
    [filename |-> StrNCopy(fn), name |-> StripExt(StrNCopy(fn)),
     pcm |-> << >>, pcm_len |-> 0, n_samples |-> 0, channels |-> 0,
     sample_rate |-> 0, bit_depth |-> 0]

cmp_samples(a, b) == strcmp(a.filename, b.filename)

\* Variant of qsort: the records are left in scan order.
qsort_Unsorted(recs) == recs

\* qsort(samples, n, sizeof(SampleData), cmp_samples): the records in
\* ascending cmp_samples order.  Directory entries have distinct names, so
\* no two records compare equal; the index breaks a tie so that the result
\* is defined on every sequence.
qsort(recs) ==
    LET n == Len(recs)
        before(m, j) == LET c == cmp_samples(recs[m], recs[j])
                        IN  c < 0 \/ (c = 0 /\ m < j)
        rank == [j \in 1..n |-> Cardinality({m \in 1..n : before(m, j)})]
    IN  [k \in 1..n |-> recs[CHOOSE j \in 1..n : rank[j] = k - 1]]


(***************************************************************************)
(* Inputs explored: command lines, directory listings and file contents.   *)
(***************************************************************************)
ARG_DIR == << 105, 110 >>                                  \* "in"
ARG_OUT == << 111, 46, 102, 117, 114 >>                    \* "o.fur"

BpmArgs  == { << 49, 50, 48 >>,                            \* "120"
              << 49, 51, 57, 46, 53 >>,                    \* "139.5"
              << 48 >>,                                    \* "0"
              << 45, 53 >>,                                \* "-5"
              << 97, 98, 99 >>,                            \* "abc"
              << 49, 50, 120 >>,                           \* "12x"
              << >> }                                      \* ""
RpbArgs  == { << 52 >>,                                    \* "4"
              << 48 >>,                                    \* "0"
              << 45, 50 >>,                                \* "-2"
              << 52, 46, 53 >>,                            \* "4.5"
              << 120 >>,                                   \* "x"
              << >> }                                      \* ""
RowsArgs == { << 54, 52 >>,                                \* "64"
              << 48 >>,                                    \* "0"
              << 45, 49 >>,                                \* "-1"
              << 49, 120 >> }                              \* "1x"

\* argv[1..argc-1]
ArgvPool ==
    { << >>, << STR_HELP >>, << STR_H >>, << ARG_DIR >>,
      << ARG_DIR, << 49, 50, 48 >>, << 52 >>, << 54, 52 >> >> }
    \cup { << ARG_DIR, b, r, p, ARG_OUT >> : b \in BpmArgs, r \in RpbArgs, p \in RowsArgs }

\* Command lines of the single-file runs: well-formed, with a range of tempo
\* arguments.
OneBpmArgs == { << 49, 50, 48 >>,                          \* "120"
                << 49, 51, 57, 46, 53 >>,                  \* "139.5"
                << 48, 46, 53 >>,                          \* "0.5"
                << 54, 53, 53, 51, 53 >>,                  \* "65535"
                << 54, 53, 53, 51, 54 >>,                  \* "65536"
                << 55, 48, 48, 48, 48, 46, 57 >> }         \* "70000.9"
OneRpbArgs == { << 49 >>,                                  \* "1"
                << 52 >>,                                  \* "4"
                << 54 >>,                                  \* "6"
                << 55 >>,                                  \* "7"
                << 56 >>,                                  \* "8"
                << 56, 53 >> }                             \* "85"

OneArgvPool ==
    { << ARG_DIR, b, r, << 54, 52 >>, ARG_OUT >> : b \in OneBpmArgs, r \in OneRpbArgs }

ArgvFor(sc) == IF sc = "one" THEN OneArgvPool ELSE ArgvPool

\* Entry names of the small directories.
NamePool == { << 46 >>,                                    \* "."
              << 46, 119, 97, 118 >>,                      \* ".wav"
              << 97, 46, 116, 120, 116 >>,                 \* "a.txt"
              << 97, 46, 119, 97, 118 >>,                  \* "a.wav"
              << 66, 46, 87, 65, 86 >>,                    \* "B.WAV"
              << 66, 97, 46, 119, 97, 118 >> }             \* "Ba.wav"

\* The orders in which readdir may return the entries of a directory whose
\* entries are a subset of NamePool: every sequence without repetition.
SmallListings ==
    { l \in UNION { [1..m -> NamePool] : m \in 0..MaxDirEntries } :
          \A x, y \in DOMAIN l : x # y => l[x] # l[y] }

\* "000.wav", "001.wav", ...: the k-th name of a large directory.
BigName(k) ==
    << CH_0 + (k \div 100), CH_0 + ((k \div 10) % 10), CH_0 + (k % 10) >> \o STR_DOTWAV

\* Large directories: MAX_SAMPLES audio files in ascending name order, the
\* same followed by the entry ".", and MAX_SAMPLES + 1 audio files in
\* ascending and in descending name order.
BigListings ==
    { [k \in 1..MAX_SAMPLES |-> BigName(k - 1)],
      [k \in 1..MAX_SAMPLES |-> BigName(k - 1)] \o << << CH_DOT >> >>,
      [k \in 1..(MAX_SAMPLES + 1) |-> BigName(k - 1)],
      [k \in 1..(MAX_SAMPLES + 1) |-> BigName(MAX_SAMPLES + 1 - k)] }

\* The directory of the single-file runs: "a.wav" alone.
OneListings == { << << 97, 46, 119, 97, 118 >> >> }

Listings(sc) == IF sc = "small" THEN SmallListings
                ELSE IF sc = "one" THEN OneListings
                ELSE BigListings

\* A canonical 44-byte-header WAV file image.
MkWav(riff, wave, fmtTag, chans, rate, bits, dataTag, pcm) ==
       riff \o U32LE(36 + Len(pcm)) \o wave
    \o STR_FMT \o U32LE(16)
    \o U16LE(fmtTag) \o U16LE(chans) \o U32LE(rate)
    \o U32LE(rate * chans * (bits \div 8)) \o U16LE(chans * (bits \div 8)) \o U16LE(bits)
    \o dataTag \o U32LE(Len(pcm))
    \o pcm

File(bytes) == [exists |-> TRUE, bytes |-> bytes]

\* A well-formed mono file for entry fn: its PCM bytes are the characters of
\* the name's stem, 8-bit when the first character code is odd, else 16-bit.
GoodWav(fn) ==
    File(MkWav(STR_RIFF, STR_WAVE, 1, 1, 44100, IF fn[1] % 2 = 1 THEN 8 ELSE 16,
               STR_DATA, StripExt(fn)))

BadFiles ==
    { [exists |-> FALSE, bytes |-> << >>],
      File(SubSeq(MkWav(STR_RIFF, STR_WAVE, 1, 1, 44100, 8, STR_DATA, << >>), 1, 43)),
      File(MkWav(<< 82, 73, 70, 88 >>, STR_WAVE, 1, 1, 44100, 8, STR_DATA, << 1, 2 >>)),
      File(MkWav(STR_RIFF, << 87, 65, 86, 88 >>, 1, 1, 44100, 8, STR_DATA, << 1, 2 >>)),
      File(MkWav(STR_RIFF, STR_WAVE, 3, 1, 44100, 16, STR_DATA, << 1, 2 >>)),
      File(MkWav(STR_RIFF, STR_WAVE, 1, 2, 44100, 16, STR_DATA, << 1, 2, 3, 4 >>)),
      File(MkWav(STR_RIFF, STR_WAVE, 1, 1, 44100, 24, STR_DATA, << 1, 2, 3 >>)),
      File(MkWav(STR_RIFF, STR_WAVE, 1, 1, 44100, 8, << 100, 97, 116, 95 >>, << 1, 2 >>)) }

\* A file image whose chunks are given one by one: each is its tag, the size
\* its header declares and the payload bytes actually present.
Chunk(tag, declared, payload) == tag \o U32LE(declared) \o payload
FmtPayload(chans, rate, bits) ==
       U16LE(1) \o U16LE(chans) \o U32LE(rate)
    \o U32LE(rate * chans * (bits \div 8)) \o U16LE(chans * (bits \div 8)) \o U16LE(bits)
Riff(chunks) == STR_RIFF \o U32LE(4 + Len(chunks)) \o STR_WAVE \o chunks

\* Files whose chunk headers declare more bytes than the file holds:
\* a data chunk of declared size 1000 with 2 bytes present; one of declared
\* size 4 with nothing present (padded to the minimum file size by a leading
\* chunk); a format chunk of declared size 40 reaching past the end; a format
\* chunk of declared size 16 cut short by the end of the file; and 16-bit
\* files whose data chunk is clamped to 4 bytes, clamped to 3 bytes, and
\* declared and present with 3 bytes.
OverrunFiles ==
    { File(Riff(Chunk(STR_FMT, 16, FmtPayload(1, 44100, 8))
                \o Chunk(STR_DATA, 1000, << 7, 9 >>))),
      File(Riff(Chunk(<< 76, 73, 83, 84 >>, 4, << 0, 0, 0, 0 >>)
                \o Chunk(STR_FMT, 16, FmtPayload(1, 44100, 8))
                \o Chunk(STR_DATA, 4, << >>))),
      File(Riff(Chunk(STR_FMT, 40, FmtPayload(1, 44100, 8))
                \o Chunk(STR_DATA, 2, << 7, 9 >>))),
      File(Riff(Chunk(STR_DATA, 4, << 1, 2, 3, 4 >>)
                \o Chunk(STR_FMT, 16, SubSeq(FmtPayload(1, 44100, 8), 1, 12)))),
      File(Riff(Chunk(STR_FMT, 16, FmtPayload(1, 44100, 16))
                \o Chunk(STR_DATA, 1000, << 7, 9, 11, 13 >>))),
      File(Riff(Chunk(STR_FMT, 16, FmtPayload(1, 44100, 16))
                \o Chunk(STR_DATA, 1000, << 7, 9, 11 >>))),
      File(Riff(Chunk(STR_FMT, 16, FmtPayload(1, 44100, 16))
                \o Chunk(STR_DATA, 3, << 7, 9, 11 >>))) }

\* What the file named fn may hold when it is read.
FilesFor(sc, fn) ==
    { GoodWav(fn) } \cup BadFiles \cup (IF sc = "one" THEN OverrunFiles ELSE {})

(***************************************************************************)
(* State of one fur_gen run.                                               *)
(***************************************************************************)
VARIABLES
    scale,          \* which inputs the environment may hold: "small", "max", "one"
    pc,             \* position in main()
    exit_status,    \* -1 while running, else the process exit status
    err,            \* which diagnostic ended the run ("" if none)
    argv,           \* argv[1..]
    bpm, rows_per_beat, pattern_rows,
    listing,        \* the whole directory as readdir will return it
    dir,            \* entries readdir has not returned yet
    samples, n, i,  \* SampleData samples[], their count, the loop index
    speed, vt_num, vt_den,
    buf,            \* Buffer
    ptr_table_off, post_order_off,
    adir_off,       \* adir0_off, adir1_off, adir2_off
    comp,           \* compression staging buffer contents
    out,            \* the output file
    heap,           \* live allocations: <<"pcm", i>>, <<"buf", 0>>, <<"comp", 0>>
    io,             \* what the run has touched: the directory, the input files
                    \* (and the image of the last one read), the warning
    blocks,         \* extents of the blocks appended so far
    \* State of the runs of the other parts of the tool chain (idle in a run
    \* of fur_gen's main):
    target,         \* the build: "linux" (long is 64 bits) or "windows" (32 bits)
    file_data,      \* read_wav: the file image
    offset,         \* read_wav: the scan offset
    st,             \* read_wav: fmt_ok, chans, rate, bits, pcm_src, pcm_len
    reads,          \* read_wav: the byte ranges of the image read so far, << from, to >>
    steps,          \* read_wav: iterations of the chunk loop so far
    total_slices,   \* slicer
    ran,            \* slicer: the system() calls made, in order
    printed,        \* slicer: the lines written to stdout and stderr, in order
    input, escaped  \* shell_escape: its argument and its result

aux_vars == << target, file_data, offset, st, reads, steps, total_slices, ran, printed, input, escaped >>

vars == << scale, pc, exit_status, err, argv, bpm, rows_per_beat, pattern_rows, listing, dir,
           samples, n, i, speed, vt_num, vt_den, buf, ptr_table_off, post_order_off,
           adir_off, comp, out, heap, io, blocks,
           target, file_data, offset, st, reads, steps, total_slices, ran, printed, input, escaped >>

NoBuffer == [data |-> << >>, len |-> 0, cap |-> 0, patches |-> << >>]
NoNumber == [num |-> 0, den |-> 1]

\* The other parts of the tool chain are not running.
AuxIdle ==
    /\ target = "linux"
    /\ file_data = << >> /\ offset = WideOf(0) /\ st = ScanInit /\ reads = {} /\ steps = 0
    /\ total_slices = 0 /\ ran = << >> /\ printed = << >>
    /\ input = << >> /\ escaped = << >>

\* The state at process start, but for the directories of the environment.
Start ==
    /\ argv \in ArgvFor(scale)
    /\ pc = "args"
    /\ exit_status = -1
    /\ err = ""
    /\ bpm = NoNumber /\ rows_per_beat = 0 /\ pattern_rows = 0
    /\ listing = << >> /\ dir = << >>
    /\ samples = << >> /\ n = 0 /\ i = 0
    /\ speed = 0 /\ vt_num = 0 /\ vt_den = 0
    /\ buf = NoBuffer
    /\ ptr_table_off = 0 /\ post_order_off = 0
    /\ adir_off = << 0, 0, 0 >>
    /\ comp = << >>
    /\ out = [opened |-> FALSE, bytes |-> << >>, complete |-> FALSE]
    /\ heap = {}
    /\ io = [dirOpened |-> FALSE, filesRead |-> {}, lastRead |-> << >>, warned |-> FALSE]
    /\ blocks = << >>
    /\ AuxIdle

\* return status; (ends the process)
Exit(status, why) ==
    /\ pc' = "exit"
    /\ exit_status' = status
    /\ err' = why


(***************************************************************************)
(* main(): argument checks.                                                *)
(***************************************************************************)
\* The outcome of the checks of main() up to opendir: status -1 means the
\* run goes on with the parsed values.
CheckArgs(av) ==
    LET argc == Len(av) + 1
        rb   == strtod(av[2])
        rr   == strtol(av[3])
        rp   == strtol(av[4])
        stop(status, why) == [status |-> status, why |-> why, bpm |-> NoNumber,
                              rows_per_beat |-> 0, pattern_rows |-> 0]
    IN  IF argc = 2 /\ (av[1] = STR_HELP \/ av[1] = STR_H) THEN stop(0, "help")
        ELSE IF argc < 6 THEN stop(1, "insufficient_args")
        ELSE IF ArgRejected(rb) THEN stop(1, "bad_bpm")
        ELSE IF ArgRejected(rr) THEN stop(1, "bad_rows_per_beat")
        ELSE IF ArgRejected(rp) THEN stop(1, "bad_pattern_rows")
        ELSE [status |-> -1, why |-> "", bpm |-> [num |-> rb.num, den |-> rb.den],
              rows_per_beat |-> rr.num, pattern_rows |-> rp.num]

ParseArgs ==
    /\ pc = "args"
    /\ LET r == CheckArgs(argv)
       IN  /\ pc' = IF r.status = -1 THEN "opendir" ELSE "exit"
           /\ exit_status' = r.status
           /\ err' = r.why
           /\ bpm' = r.bpm
           /\ rows_per_beat' = r.rows_per_beat
           /\ pattern_rows' = r.pattern_rows
    /\ UNCHANGED aux_vars
    /\ UNCHANGED << scale, argv, listing, dir, samples, n, i, speed, vt_num, vt_den, buf,
                    ptr_table_off, post_order_off, adir_off, comp, out, heap, io, blocks >>

(***************************************************************************)
(* main(): directory scan.                                                 *)
(***************************************************************************)
\* DIR *dir = opendir(input_dir); the directory is what the environment
\* holds at that moment, or cannot be opened.
OpenDir ==
    /\ pc = "opendir"
    /\ io' = [io EXCEPT !.dirOpened = TRUE]
    /\ \E ok \in BOOLEAN :
         IF ok
         THEN /\ \E l \in Listings(scale) : listing' = l /\ dir' = l
              /\ pc' = "readdir"
              /\ UNCHANGED << exit_status, err >>
         ELSE /\ Exit(1, "cannot_open_dir")
              /\ UNCHANGED << listing, dir >>
    /\ UNCHANGED aux_vars
    /\ UNCHANGED << scale, argv, bpm, rows_per_beat, pattern_rows, samples, n, i, speed,
                    vt_num, vt_den, buf, ptr_table_off, post_order_off, adir_off,
                    comp, out, heap, blocks >>

\* One iteration of while ((ent = readdir(dir)) != NULL) with ent != NULL.
ReadDirEntry ==
    /\ pc = "readdir"
    /\ dir # << >>
    /\ LET fn == Head(dir)
       IN  /\ dir' = Tail(dir)
           /\ IF n >= MAX_SAMPLES
              THEN /\ io' = [io EXCEPT !.warned = TRUE]
                   /\ pc' = "closedir"
                   /\ UNCHANGED << samples, n >>
              ELSE IF ~IsWavName(fn)
              THEN UNCHANGED << samples, n, io, pc >>
              ELSE /\ samples' = Append(samples, NewSample(fn))
                   /\ n' = n + 1
                   /\ UNCHANGED << io, pc >>
    /\ UNCHANGED aux_vars
    /\ UNCHANGED << exit_status, err, scale, argv, bpm, rows_per_beat, pattern_rows, listing,
                    i, speed, vt_num, vt_den, buf, ptr_table_off, post_order_off,
                    adir_off, comp, out, heap, blocks >>

\* readdir returns NULL: the loop ends.
ReadDirNull ==
    /\ pc = "readdir"
    /\ dir = << >>
    /\ pc' = "closedir"
    /\ UNCHANGED aux_vars
    /\ UNCHANGED << exit_status, err, scale, argv, bpm, rows_per_beat, pattern_rows, listing,
                    dir, samples, n, i, speed, vt_num, vt_den, buf, ptr_table_off,
                    post_order_off, adir_off, comp, out, heap, io, blocks >>

\* closedir(dir); if (n == 0) return 1; qsort(samples, n, ...);
CloseDirSort ==
    /\ pc = "closedir"
    /\ IF n = 0
       THEN Exit(1, "no_wav_files") /\ UNCHANGED << samples, i >>
       ELSE /\ samples' = qsort(samples)
            /\ i' = 0
            /\ pc' = "load"
            /\ UNCHANGED << exit_status, err >>
    /\ UNCHANGED aux_vars
    /\ UNCHANGED << scale, argv, bpm, rows_per_beat, pattern_rows, listing, dir, n, speed,
                    vt_num, vt_den, buf, ptr_table_off, post_order_off, adir_off,
                    comp, out, heap, io, blocks >>

(***************************************************************************)
(* main(): loading.                                                        *)
(***************************************************************************)
PcmOf(k) == << "pcm", k >>
BufOf    == << "buf", 0 >>
CompOf   == << "comp", 0 >>

\* Variant of FreePcm: the loop stops one record early.
FreePcm_OneShort(h, upto) == h \ { PcmOf(j) : j \in 0..(upto - 2) }

\* for (j = 0; j < upto; j++) free(samples[j].pcm);
FreePcm(h, upto) == h \ { PcmOf(j) : j \in 0..(upto - 1) }

\* One iteration of for (i = 0; i < n; i++) { read_wav(path, &samples[i]) ... }
LoadSample ==
    /\ pc = "load"
    /\ i < n
    /\ \E file \in FilesFor(scale, samples[i + 1].filename), o \in IoOutcomes :
         LET r == read_wav(file, o)
         IN  /\ io' = [io EXCEPT !.filesRead = @ \cup { samples[i + 1].filename },
                                 !.lastRead = file.bytes]
             /\ IF r.rc # 0
                THEN /\ heap' = FreePcm(heap, i)
                     /\ Exit(1, r.err)
                     /\ UNCHANGED << samples, i >>
                ELSE /\ samples' = [samples EXCEPT ![i + 1] =
                                      [@ EXCEPT !.pcm = r.pcm, !.pcm_len = r.pcm_len,
                                                !.channels = r.channels,
                                                !.n_samples = r.n_samples,
                                                !.sample_rate = r.sample_rate,
                                                !.bit_depth = r.bit_depth]]
                     /\ heap' = heap \cup { PcmOf(i) }
                     /\ i' = i + 1
                     /\ pc' = IF i + 1 < n THEN "load" ELSE "build"
                     /\ UNCHANGED << exit_status, err >>
    /\ UNCHANGED aux_vars
    /\ UNCHANGED << scale, argv, bpm, rows_per_beat, pattern_rows, listing, dir, n, speed,
                    vt_num, vt_den, buf, ptr_table_off, post_order_off, adir_off,
                    comp, out, blocks >>


(***************************************************************************)
(* main(): container assembly.                                             *)
(***************************************************************************)
\* Variant of WriteHeader: the info pointer is the header size, 24.
WriteHeader_Ptr24(b) ==
    buf_zeros(buf_u32le(buf_u16le(buf_u16le(buf_write(b, STR_MAGIC), FURNACE_VER), 0), 24), 8)

\* File header (24 bytes) and 8 bytes of padding.
WriteHeader(b) ==
    buf_zeros(buf_u32le(buf_u16le(buf_u16le(buf_write(b, STR_MAGIC), FURNACE_VER), 0), 32), 8)

Block(kind, index, start, end) ==
    [kind |-> kind, index |-> index, start |-> start, end |-> end]

\* Tempo calculation, buf_init, the file header and write_info.
BuildInfo ==
    /\ pc = "build"
    /\ LET sp  == rows_per_beat
           num == U16(TruncToInt(bpm))
           den == U16(RoundDiv(60 * 60, sp * rows_per_beat))
       IN  /\ speed' = sp
           /\ vt_num' = num
           /\ vt_den' = den
           /\ \E ok \in BOOLEAN :
                IF ok
                THEN LET h  == WriteHeader(buf_init)
                         wi == write_info(h, n, sp, pattern_rows, num, den)
                     IN  /\ buf' = wi.b
                         /\ ptr_table_off' = wi.ptr_table_off
                         /\ post_order_off' = wi.post_order_off
                         /\ blocks' = << Block("INFO", 0, h.len, wi.b.len) >>
                         /\ heap' = heap \cup { BufOf }
                         /\ pc' = "adir"
                         /\ UNCHANGED << exit_status, err >>
                ELSE /\ Exit(1, "buf_alloc_failed")
                     /\ UNCHANGED << buf, ptr_table_off, post_order_off, blocks, heap >>
    /\ UNCHANGED aux_vars
    /\ UNCHANGED << scale, argv, bpm, rows_per_beat, pattern_rows, listing, dir, samples, n, i,
                    adir_off, comp, out, io >>

\* The three ADIR blocks and the patches of their pointers.
WriteAdirs ==
    /\ pc = "adir"
    /\ LET adir0_off == buf.len
           b1 == write_adir_ins(buf, n)
           adir1_off == b1.len
           b2 == write_adir_wav(b1)
           adir2_off == b2.len
           b3 == write_adir_smp(b2, n)
           p1 == buf_patch_u32(b3, post_order_off + PO_ADIR0, adir0_off)
           p2 == buf_patch_u32(p1, post_order_off + PO_ADIR1, adir1_off)
           p3 == buf_patch_u32(p2, post_order_off + PO_ADIR2, adir2_off)
       IN  /\ buf' = p3
           /\ adir_off' = << adir0_off, adir1_off, adir2_off >>
           /\ blocks' = blocks \o << Block("ADIR", 0, adir0_off, b1.len),
                                     Block("ADIR", 1, adir1_off, b2.len),
                                     Block("ADIR", 2, adir2_off, b3.len) >>
    /\ i' = 0
    /\ pc' = "ins2"
    /\ UNCHANGED aux_vars
    /\ UNCHANGED << exit_status, err, scale, argv, bpm, rows_per_beat, pattern_rows, listing,
                    dir, samples, n, speed, vt_num, vt_den, ptr_table_off,
                    post_order_off, comp, out, heap, io >>

\* Variant of PtrSlot: the tables are taken to be one entry apart.
PtrSlot_Stride1(role, item) == ptr_table_off + role * 4 + item * 4

\* Offset of pointer-table slot item of table role (0 INS2, 1 SMP2, 2 PATN).
PtrSlot(role, item) == ptr_table_off + n * role * 4 + item * 4

\* Variant of Ins2Step: the pointer is patched before the block is written.
Ins2Step_PatchFirst(b, k) ==
    LET ins_off == b.len
        p == buf_patch_u32(b, PtrSlot(0, k), ins_off)
        w == write_ins2(p, samples[k + 1].name, k)
    IN  [b |-> w, blk |-> Block("INS2", k, ins_off, w.len)]

\* Body of the INS2 loop: size_t ins_off = buf.len; write_ins2(...);
\* buf_patch_u32(&buf, ptr_table_off + i * 4, ins_off);
Ins2Step(b, k) ==
    LET ins_off == b.len
        w == write_ins2(b, samples[k + 1].name, k)
    IN  [b |-> buf_patch_u32(w, PtrSlot(0, k), ins_off),
         blk |-> Block("INS2", k, ins_off, w.len)]

\* Variant of Smp2Step: the pointer is patched before the block is written.
Smp2Step_PatchFirst(b, k) ==
    LET smp_off == b.len
        p == buf_patch_u32(b, PtrSlot(1, k), smp_off)
        w == write_smp2(p, samples[k + 1])
    IN  [b |-> w, blk |-> Block("SMP2", k, smp_off, w.len)]

\* Body of the SMP2 loop.
Smp2Step(b, k) ==
    LET smp_off == b.len
        w == write_smp2(b, samples[k + 1])
    IN  [b |-> buf_patch_u32(w, PtrSlot(1, k), smp_off),
         blk |-> Block("SMP2", k, smp_off, w.len)]

\* Body of the PATN loop.
PatnStep(b, k) ==
    LET patn_off == b.len
        w == write_patn(b, k)
    IN  [b |-> buf_patch_u32(w, PtrSlot(2, k), patn_off),
         blk |-> Block("PATN", k, patn_off, w.len)]

\* One iteration of the INS2 loop.
WriteIns2 ==
    /\ pc = "ins2"
    /\ LET r == Ins2Step(buf, i)
       IN  /\ buf' = r.b
           /\ blocks' = Append(blocks, r.blk)
    /\ i' = IF i + 1 < n THEN i + 1 ELSE 0
    /\ pc' = IF i + 1 < n THEN "ins2" ELSE "smp2"
    /\ UNCHANGED aux_vars
    /\ UNCHANGED << exit_status, err, scale, argv, bpm, rows_per_beat, pattern_rows, listing,
                    dir, samples, n, speed, vt_num, vt_den, ptr_table_off,
                    post_order_off, adir_off, comp, out, heap, io >>

\* One iteration of the SMP2 loop.
WriteSmp2 ==
    /\ pc = "smp2"
    /\ LET r == Smp2Step(buf, i)
       IN  /\ buf' = r.b
           /\ blocks' = Append(blocks, r.blk)
    /\ i' = IF i + 1 < n THEN i + 1 ELSE 0
    /\ pc' = IF i + 1 < n THEN "smp2" ELSE "patn"
    /\ UNCHANGED aux_vars
    /\ UNCHANGED << exit_status, err, scale, argv, bpm, rows_per_beat, pattern_rows, listing,
                    dir, samples, n, speed, vt_num, vt_den, ptr_table_off,
                    post_order_off, adir_off, comp, out, heap, io >>

\* One iteration of the PATN loop.
WritePatn ==
    /\ pc = "patn"
    /\ LET r == PatnStep(buf, i)
       IN  /\ buf' = r.b
           /\ blocks' = Append(blocks, r.blk)
    /\ i' = IF i + 1 < n THEN i + 1 ELSE n
    /\ pc' = IF i + 1 < n THEN "patn" ELSE "compress"
    /\ UNCHANGED aux_vars
    /\ UNCHANGED << exit_status, err, scale, argv, bpm, rows_per_beat, pattern_rows, listing,
                    dir, samples, n, speed, vt_num, vt_den, ptr_table_off,
                    post_order_off, adir_off, comp, out, heap, io >>

(***************************************************************************)
(* main(): compression and the output file.                                *)
(***************************************************************************)
\* free(b->data); b->data = NULL; b->len = b->cap = 0;
buf_free(b) == [b EXCEPT !.data = << >>, !.len = 0, !.cap = 0]

\* The zlib stream compress2 produces for data, kept abstract: a value from
\* which a decoder recovers exactly data.
Deflate(data) == << [zlib |-> data] >>

\* Variant of Compress: the status of compress2 is not tested, the run goes
\* on to the output file with whatever the staging buffer holds.
Compress_StatusIgnored ==
    /\ pc = "compress"
    /\ \E o \in {"ok", "alloc_fails", "z_error"} :
         IF o = "alloc_fails"
         THEN /\ buf' = buf_free(buf)
              /\ heap' = FreePcm(heap \ { BufOf }, n)
              /\ Exit(1, "comp_alloc_failed")
              /\ UNCHANGED comp
         ELSE /\ comp' = IF o = "ok" THEN Deflate(buf.data) ELSE << >>
              /\ heap' = heap \cup { CompOf }
              /\ pc' = "output"
              /\ UNCHANGED << exit_status, err, buf >>
    /\ UNCHANGED aux_vars
    /\ UNCHANGED << scale, argv, bpm, rows_per_beat, pattern_rows, listing, dir, samples, n, i,
                    speed, vt_num, vt_den, ptr_table_off, post_order_off, adir_off,
                    out, io, blocks >>

\* malloc(compressBound(len)) and compress2().
Compress ==
    /\ pc = "compress"
    /\ \E o \in {"ok", "alloc_fails", "z_error"} :
         IF o = "ok"
         THEN /\ comp' = Deflate(buf.data)
              /\ heap' = heap \cup { CompOf }
              /\ pc' = "output"
              /\ UNCHANGED << exit_status, err, buf >>
         ELSE /\ buf' = buf_free(buf)
              /\ heap' = FreePcm(heap \ { BufOf }, n)
              /\ Exit(1, IF o = "alloc_fails" THEN "comp_alloc_failed" ELSE "zlib_failed")
              /\ UNCHANGED comp
    /\ UNCHANGED aux_vars
    /\ UNCHANGED << scale, argv, bpm, rows_per_beat, pattern_rows, listing, dir, samples, n, i,
                    speed, vt_num, vt_den, ptr_table_off, post_order_off, adir_off,
                    out, io, blocks >>

\* fopen(output_file, "wb"), fwrite, fclose, cleanup.
WriteOutput ==
    /\ pc = "output"
    /\ \E o \in {"ok", "open_fails", "short_write"} :
         /\ out' = IF o = "open_fails" THEN out
                   ELSE [opened |-> TRUE, bytes |-> comp, complete |-> (o = "ok")]
         /\ Exit(IF o = "ok" THEN 0 ELSE 1,
                 IF o = "ok" THEN "" ELSE IF o = "open_fails" THEN "cannot_create"
                 ELSE "write_failed")
    /\ buf' = buf_free(buf)
    /\ heap' = FreePcm(heap \ { CompOf, BufOf }, n)
    /\ UNCHANGED aux_vars
    /\ UNCHANGED << scale, argv, bpm, rows_per_beat, pattern_rows, listing, dir, samples, n, i,
                    speed, vt_num, vt_den, ptr_table_off, post_order_off, adir_off,
                    comp, io, blocks >>

Next ==
    \/ ParseArgs
    \/ OpenDir
    \/ ReadDirEntry
    \/ ReadDirNull
    \/ CloseDirSort
    \/ LoadSample
    \/ BuildInfo
    \/ WriteAdirs
    \/ WriteIns2
    \/ WriteSmp2
    \/ WritePatn
    \/ Compress
    \/ WriteOutput

\* Runs on the small directories (every listing order of up to MaxDirEntries
\* entries), on the large ones, on both, and on the single-file directory
\* (with the wider ranges of tempo arguments and file images).
Init    == scale = "small" /\ Start
InitMax == scale = "max" /\ Start
InitAll == scale \in {"small", "max"} /\ Start
InitOne == scale = "one" /\ Start

Spec    == Init /\ [][Next]_vars
SpecMax == InitMax /\ [][Next]_vars
SpecAll == InitAll /\ [][Next]_vars
SpecOne == InitOne /\ [][Next]_vars


(***************************************************************************)
(* The output buffer on its own: every sequence of up to MaxOps calls on a  *)
(* buffer fresh from buf_init, with sizes up to and beyond the 4 MiB        *)
(* capacity.  These runs follow the header of the buffer (len, cap, and     *)
(* the patch history); no buffer function computes len or cap from the      *)
(* bytes, and the bytes are left out here: data stays empty.                *)
(***************************************************************************)
Op(kind, cnt) == [kind |-> kind, cnt |-> cnt]

\* The append calls explored and the number of bytes each appends:
\* buf_write(b, src, 3), buf_u8, buf_u16le, buf_u32le, buf_i32le,
\* buf_float_le, buf_zeros(b, n), buf_fill(b, v, n), buf_str(b, "a"), buf_tag.
\* The runs reach to two bytes below the initial capacity, to exactly the
\* capacity, one byte past it, and past twice the capacity in one call.
AppendOps ==
    { Op("write", 3), Op("u8", 1), Op("u16le", 2), Op("u32le", 4), Op("i32le", 4),
      Op("float", 4), Op("str", 1 + 1), Op("tag", 4),
      Op("zeros", 0), Op("zeros", 2), Op("fill", 2),
      Op("zeros", BUF_INIT_CAP - 2), Op("zeros", BUF_INIT_CAP),
      Op("fill", BUF_INIT_CAP + 1), Op("fill", 2 * BUF_INIT_CAP + 1) }

\* The state after buf_init(&buf) on a buffer of its own.
StartOps(sc, at) ==
    /\ scale = sc
    /\ argv = << >>
    /\ pc = at
    /\ exit_status = -1
    /\ err = ""
    /\ bpm = NoNumber /\ rows_per_beat = 0 /\ pattern_rows = 0
    /\ listing = << >> /\ dir = << >>
    /\ samples = << >> /\ n = 0 /\ i = 0
    /\ speed = 0 /\ vt_num = 0 /\ vt_den = 0
    /\ buf = buf_init
    /\ ptr_table_off = 0 /\ post_order_off = 0
    /\ adir_off = << 0, 0, 0 >>
    /\ comp = << >>
    /\ out = [opened |-> FALSE, bytes |-> << >>, complete |-> FALSE]
    /\ heap = { BufOf }
    /\ io = [dirOpened |-> FALSE, filesRead |-> {}, lastRead |-> << >>, warned |-> FALSE]
    /\ blocks = << >>
    /\ AuxIdle

\* One append call.  When the bytes do not fit, buf_ensure reallocates, and
\* a failing realloc ends the process before anything is written.
BufAppend ==
    /\ pc = "bufops"
    /\ i < MaxOps
    /\ \E op \in AppendOps :
         LET r == EnsureAndAdvance(buf, op.cnt)
         IN  \E ok \in (IF r.cap # buf.cap THEN BOOLEAN ELSE {TRUE}) :
                 IF ok
                 THEN /\ buf' = r
                      /\ i' = i + 1
                      /\ UNCHANGED << pc, exit_status, err >>
                 ELSE /\ Exit(1, "buf_realloc_failed")
                      /\ UNCHANGED << buf, i >>
    /\ UNCHANGED aux_vars
    /\ UNCHANGED << scale, argv, bpm, rows_per_beat, pattern_rows, listing, dir, samples, n,
                    speed, vt_num, vt_den, ptr_table_off, post_order_off, adir_off,
                    comp, out, heap, io, blocks >>

\* One patch call at an offset written before: the first or the last bytes.
BufPatch ==
    /\ pc = "bufops"
    /\ i < MaxOps
    /\ \E w \in {2, 4} :
         /\ buf.len >= w
         /\ \E off \in {0, buf.len - w} :
              buf' = IF w = 4 THEN buf_patch_u32(buf, off, 2018915346)
                     ELSE buf_patch_u16(buf, off, 43981)
    /\ i' = i + 1
    /\ UNCHANGED aux_vars
    /\ UNCHANGED << pc, exit_status, err, scale, argv, bpm, rows_per_beat, pattern_rows,
                    listing, dir, samples, n, speed, vt_num, vt_den, ptr_table_off,
                    post_order_off, adir_off, comp, out, heap, io, blocks >>

NextBuf == BufAppend \/ BufPatch

InitBuf == StartOps("buffer", "bufops")
SpecBuf == InitBuf /\ [][NextBuf]_vars

(***************************************************************************)
(* The directory-block writers on their own: every sequence of up to       *)
(* MaxOps calls on a buffer fresh from buf_init.  blocks holds the extents  *)
(* of the blocks written; index holds the writer's argument n.             *)
(***************************************************************************)
\* The values of n the directory writers are called with.
AdirCounts == {0, 1, 2, 3, MAX_SAMPLES}

\* One call of write_adir_ins, write_adir_wav or write_adir_smp.
AdirWrite ==
    /\ pc = "adirops"
    /\ i < MaxOps
    /\ \E w \in {"ADIR_INS", "ADIR_WAV", "ADIR_SMP"}, cnt \in AdirCounts :
         LET r == IF w = "ADIR_INS" THEN write_adir_ins(buf, cnt)
                  ELSE IF w = "ADIR_WAV" THEN write_adir_wav(buf)
                  ELSE write_adir_smp(buf, cnt)
         IN  /\ buf' = r
             /\ blocks' = Append(blocks, Block(w, cnt, buf.len, r.len))
    /\ i' = i + 1
    /\ UNCHANGED aux_vars
    /\ UNCHANGED << pc, exit_status, err, scale, argv, bpm, rows_per_beat, pattern_rows,
                    listing, dir, samples, n, speed, vt_num, vt_den, ptr_table_off,
                    post_order_off, adir_off, comp, out, heap, io >>

NextAdir == AdirWrite

InitAdir == StartOps("writers", "adirops")
SpecAdir == InitAdir /\ [][NextAdir]_vars

(***************************************************************************)
(* read_wav on its own, one loop iteration at a time, with the integer     *)
(* widths of the build it runs in, on file images whose chunk headers      *)
(* declare every kind of size.  reads collects the byte ranges of the      *)
(* image the function reads (0-based, half-open).  A signed overflow or a  *)
(* read outside the image is undefined behaviour: the run is followed no   *)
(* further (pc = "undefined") since anything may happen from there.        *)
(***************************************************************************)
\* The variables of fur_gen's main when another part of the tool chain runs.
MainIdle(sc, at) ==
    /\ scale = sc
    /\ argv = << >>
    /\ pc = at
    /\ exit_status = -1
    /\ err = ""
    /\ bpm = NoNumber /\ rows_per_beat = 0 /\ pattern_rows = 0
    /\ listing = << >> /\ dir = << >>
    /\ samples = << >> /\ n = 0 /\ i = 0
    /\ speed = 0 /\ vt_num = 0 /\ vt_den = 0
    /\ buf = NoBuffer
    /\ ptr_table_off = 0 /\ post_order_off = 0
    /\ adir_off = << 0, 0, 0 >>
    /\ comp = << >>
    /\ out = [opened |-> FALSE, bytes |-> << >>, complete |-> FALSE]
    /\ heap = {}
    /\ io = [dirOpened |-> FALSE, filesRead |-> {}, lastRead |-> << >>, warned |-> FALSE]
    /\ blocks = << >>

STR_JUNK == << 74, 85, 78, 75 >>
STR_LIST == << 76, 73, 83, 84 >>

\* A chunk whose size field holds the four bytes size.
ChunkRaw(tag, size, payload) == tag \o size \o payload

\* The chunks the images are made of: a valid format chunk; data chunks of 4
\* and of 3 bytes (the latter padded); chunks of size 0 and of size 16 with
\* an unknown tag; unknown chunks declaring 0xFFFFFFFF, 0xFFFFFFF0 and
\* 0xFFFFFFE0 bytes; a format chunk header declaring 0xFFFFFFF0 bytes; data
\* chunk headers declaring 0x80000000, 0x7FFFFF00 and 0x7FFFFFF0 bytes with 2
\* bytes present.
ChunkLibrary ==
    { Chunk(STR_FMT, 16, FmtPayload(1, 44100, 8)),
      Chunk(STR_DATA, 4, << 1, 2, 3, 4 >>),
      Chunk(STR_DATA, 3, << 1, 2, 3, 0 >>),
      Chunk(STR_JUNK, 0, << >>),
      Chunk(STR_LIST, 16, Fill(0, 16)),
      ChunkRaw(STR_JUNK, << 255, 255, 255, 255 >>, << >>),
      ChunkRaw(STR_JUNK, << 240, 255, 255, 255 >>, << >>),
      ChunkRaw(STR_JUNK, << 224, 255, 255, 255 >>, << >>),
      ChunkRaw(STR_FMT, << 240, 255, 255, 255 >>, << >>),
      ChunkRaw(STR_DATA, << 0, 0, 0, 128 >>, << 7, 9 >>),
      ChunkRaw(STR_DATA, << 0, 255, 255, 127 >>, << 7, 9 >>),
      ChunkRaw(STR_DATA, << 240, 255, 255, 127 >>, << 7, 9 >>) }

RECURSIVE Concat(_)
Concat(ss) == IF ss = << >> THEN << >> ELSE Head(ss) \o Concat(Tail(ss))

\* The images: a RIFF/WAVE header followed by up to MaxChunks chunks.
ScanFiles ==
    { Riff(Concat(cs)) : cs \in UNION { [1..m -> ChunkLibrary] : m \in 1..MaxChunks } }

\* The body of while (off + 8 <= fsize) { ... } at offset o, the loop
\* condition being true: what it reads, and how it ends: "next" (go round
\* again from off), "return" (return -1) or "undefined".
ScanBody(image, fsize, o, s, bits) ==
    LET at     == WInt(o)
        W8     == WideOf(8)
        csz    == rd32w(image, at + 4)
        head   == { << at, at + 8 >> }
        isFmt  == TagAt(image, at, STR_FMT)
        isData == TagAt(image, at, STR_DATA)
        \* off + 8 + csz > (unsigned long)fsize || csz < 16
        fmtEnd == ToUnsignedLong(WAdd(WAdd(o, W8), csz), bits)
        badFmt == WLt(WideOf(fsize), fmtEnd) \/ WLt(csz, WideOf(16))
        \* pcm_len = (long)csz; if (off + 8 + pcm_len > fsize) ...
        len0    == ToLong(csz, bits)
        dataEnd == WAdd(WAdd(o, W8), len0)
        \* off += 8 + csz; if (csz & 1) off++;
        sum    == ToLong(ToUnsignedLong(
                     WAdd(ToUnsignedLong(o, bits),
                          ToUnsignedLong(WAdd(W8, csz), bits)), bits), bits)
        odd    == csz.l % 2 = 1
        next   == IF odd THEN WAdd(sum, WideOf(1)) ELSE sum
        stop(kind, why, rd) ==
            [kind |-> kind, err |-> why, off |-> o, st |-> s, reads |-> rd]
        go(s2, rd) ==
            IF odd /\ ~FitsLong(next, bits)
            THEN stop("undefined", "signed_overflow", rd)
            ELSE [kind |-> "next", err |-> "", off |-> next, st |-> s2, reads |-> rd]
    IN  IF at < 0 \/ at + 8 > fsize
        THEN stop("undefined", "read_outside_image", head)
        ELSE IF isFmt
        THEN IF badFmt THEN stop("return", "bad_fmt", head)
             ELSE IF at + 10 > fsize
             THEN stop("undefined", "read_outside_image", head \cup { << at + 8, at + 10 >> })
             ELSE IF rd16(image, at + 8) # 1
             THEN stop("return", "not_pcm", head \cup { << at + 8, at + 10 >> })
             ELSE IF at + 24 > fsize
             THEN stop("undefined", "read_outside_image", head \cup { << at + 8, at + 24 >> })
             ELSE go([s EXCEPT !.chans = rd16(image, at + 10),
                               !.rate = rd32int(image, at + 12),
                               !.bits = rd16(image, at + 22),
                               !.fmt_ok = TRUE],
                     head \cup { << at + 8, at + 24 >> })
        ELSE IF isData
        THEN IF ~FitsLong(dataEnd, bits)
             THEN stop("undefined", "signed_overflow", head)
             ELSE go([s EXCEPT !.pcm_len = IF WLt(WideOf(fsize), dataEnd)
                                           THEN fsize - at - 8
                                           ELSE WInt(len0),
                               !.pcm_src = at + 8],
                     head)
        ELSE go(s, head)

\* read_wav up to the chunk loop: the file is opened, sized, read into
\* memory and its RIFF/WAVE header checked.
WavOpen ==
    /\ pc = "wav_open"
    /\ \E o \in {"ok", "fd_alloc_fails", "fread_fails"} :
         LET fsize == Len(file_data)
         IN  IF fsize < WAV_HEADER_MIN
             THEN Exit(1, "too_small") /\ UNCHANGED << offset, reads >>
             ELSE IF o = "fd_alloc_fails"
             THEN Exit(1, "alloc_failed") /\ UNCHANGED << offset, reads >>
             ELSE IF o = "fread_fails"
             THEN Exit(1, "read_failed") /\ UNCHANGED << offset, reads >>
             ELSE IF ~TagAt(file_data, 0, STR_RIFF) \/ ~TagAt(file_data, 8, STR_WAVE)
             THEN /\ Exit(1, "not_valid_wav")
                  /\ reads' = { << 0, 4 >>, << 8, 12 >> }
                  /\ UNCHANGED offset
             ELSE /\ pc' = "wav_scan"
                  /\ offset' = WideOf(12)
                  /\ reads' = { << 0, 4 >>, << 8, 12 >> }
                  /\ UNCHANGED << exit_status, err >>
    /\ UNCHANGED << scale, argv, bpm, rows_per_beat, pattern_rows, listing, dir, samples, n, i,
                    speed, vt_num, vt_den, buf, ptr_table_off, post_order_off, adir_off,
                    comp, out, heap, io, blocks, target, file_data, st, steps,
                    total_slices, ran, printed, input, escaped >>

\* The loop condition off + 8 <= fsize: "true", "false", or "undefined" when
\* the signed sum overflows.
ScanCondition ==
    LET c == WAdd(offset, WideOf(8))
    IN  IF ~FitsLong(c, LongBits(target)) THEN "undefined"
        ELSE IF WLe(c, WideOf(Len(file_data))) THEN "true" ELSE "false"

\* One iteration of the chunk loop.
WavChunk ==
    /\ pc = "wav_scan"
    /\ steps < MaxScanSteps
    /\ ScanCondition = "true"
    /\ LET r == ScanBody(file_data, Len(file_data), offset, st, LongBits(target))
       IN  /\ offset' = r.off
           /\ st' = r.st
           /\ reads' = reads \cup r.reads
           /\ steps' = steps + 1
           /\ IF r.kind = "next" THEN UNCHANGED << pc, exit_status, err >>
              ELSE IF r.kind = "return" THEN Exit(1, r.err)
              ELSE pc' = "undefined" /\ err' = r.err /\ UNCHANGED exit_status
    /\ UNCHANGED << scale, argv, bpm, rows_per_beat, pattern_rows, listing, dir, samples, n, i,
                    speed, vt_num, vt_den, buf, ptr_table_off, post_order_off, adir_off,
                    comp, out, heap, io, blocks, target, file_data,
                    total_slices, ran, printed, input, escaped >>

\* The loop has ended: the checks after it, and the copy of the PCM bytes.
WavFinish ==
    /\ pc = "wav_scan"
    /\ ScanCondition # "true"
    /\ IF ScanCondition = "undefined"
       THEN pc' = "undefined" /\ err' = "signed_overflow" /\ UNCHANGED << exit_status, reads >>
       ELSE IF ~st.fmt_ok \/ st.pcm_src = -1 \/ st.pcm_len <= 0
       THEN Exit(1, "missing_fmt_data") /\ UNCHANGED reads
       ELSE IF st.chans # 1 THEN Exit(1, "not_mono") /\ UNCHANGED reads
       ELSE IF st.bits # 8 /\ st.bits # 16 THEN Exit(1, "bad_bit_depth") /\ UNCHANGED reads
       ELSE \E ok \in BOOLEAN :
              IF ~ok THEN Exit(1, "pcm_alloc_failed") /\ UNCHANGED reads
              ELSE /\ pc' = "wav_loaded"
                   /\ reads' = reads \cup { << st.pcm_src, st.pcm_src + st.pcm_len >> }
                   /\ UNCHANGED << exit_status, err >>
    /\ UNCHANGED << scale, argv, bpm, rows_per_beat, pattern_rows, listing, dir, samples, n, i,
                    speed, vt_num, vt_den, buf, ptr_table_off, post_order_off, adir_off,
                    comp, out, heap, io, blocks, target, file_data, offset, st, steps,
                    total_slices, ran, printed, input, escaped >>

NextScan == WavOpen \/ WavChunk \/ WavFinish

\* read_wav is entered with a file of the environment, in either build.
InitScan ==
    /\ MainIdle("scan", "wav_open")
    /\ target \in {"linux", "windows"}
    /\ file_data \in ScanFiles
    /\ offset = WideOf(0) /\ st = ScanInit /\ reads = {} /\ steps = 0
    /\ total_slices = 0 /\ ran = << >> /\ printed = << >>
    /\ input = << >> /\ escaped = << >>

SpecScan == InitScan /\ [][NextScan]_vars

(***************************************************************************)
(* read_wav of the text exporter (furnace_gen.c) on its own.  Up to the    *)
(* end of the chunk loop it has the statements of fur_gen's read_wav       *)
(* (furnace_gen.c:55-132), so WavOpen and WavChunk stand for them; what    *)
(* follows the loop differs.  A division by zero is undefined behaviour.   *)
(***************************************************************************)
\* Format fields of the images: channel counts and bit depths, valid or not.
FgChannels == {0, 1, 2}
FgDepths   == {0, 4, 8, 12, 16, 24}

\* The images: a format chunk with these fields and a data chunk of 4 bytes
\* or none.
FgFiles ==
    { Riff(Chunk(STR_FMT, 16, FmtPayload(c, 44100, b)) \o d) :
        c \in FgChannels, b \in FgDepths,
        d \in { Chunk(STR_DATA, 4, << 1, 2, 3, 4 >>), Chunk(STR_JUNK, 0, << >>) } }

\* The loop has ended: if (!fmt_found || !pcm_data || pcm_len <= 0) return -1;
\* the PCM bytes are copied and the frame count derived.
FgFinish ==
    /\ pc = "wav_scan"
    /\ ScanCondition # "true"
    /\ IF ScanCondition = "undefined"
       THEN /\ pc' = "undefined" /\ err' = "signed_overflow"
            /\ UNCHANGED << exit_status, reads, samples >>
       ELSE IF ~st.fmt_ok \/ st.pcm_src = -1 \/ st.pcm_len <= 0
       THEN Exit(1, "missing_fmt_data") /\ UNCHANGED << reads, samples >>
       ELSE \E ok \in BOOLEAN :
              IF ~ok THEN Exit(1, "pcm_alloc_failed") /\ UNCHANGED << reads, samples >>
              ELSE /\ reads' = reads \cup { << st.pcm_src, st.pcm_src + st.pcm_len >> }
                   \* out->n_samples = pcm_len / (bits_per_sample / 8) / channels;
                   /\ IF st.bits \div 8 = 0 \/ st.chans = 0
                      THEN /\ pc' = "undefined" /\ err' = "division_by_zero"
                           /\ UNCHANGED << exit_status, samples >>
                      ELSE /\ pc' = "wav_loaded"
                           /\ samples' =
                                << [pcm |-> SubSeq(file_data, st.pcm_src + 1,
                                                   st.pcm_src + st.pcm_len),
                                    pcm_len |-> st.pcm_len,
                                    n_samples |-> (st.pcm_len \div (st.bits \div 8))
                                                      \div st.chans,
                                    sample_rate |-> st.rate,
                                    bit_depth |-> st.bits] >>
                           /\ UNCHANGED << exit_status, err >>
    /\ UNCHANGED << scale, argv, bpm, rows_per_beat, pattern_rows, listing, dir, n, i,
                    speed, vt_num, vt_den, buf, ptr_table_off, post_order_off, adir_off,
                    comp, out, heap, io, blocks, target, file_data, offset, st, steps,
                    total_slices, ran, printed, input, escaped >>

NextFg == WavOpen \/ WavChunk \/ FgFinish

InitFg ==
    /\ MainIdle("furnace", "wav_open")
    /\ target \in {"linux", "windows"}
    /\ file_data \in FgFiles
    /\ offset = WideOf(0) /\ st = ScanInit /\ reads = {} /\ steps = 0
    /\ total_slices = 0 /\ ran = << >> /\ printed = << >>
    /\ input = << >> /\ escaped = << >>

SpecFg == InitFg /\ [][NextFg]_vars

(***************************************************************************)
(* slicer.c: shell_escape.  Strings are sequences of character codes.      *)
(***************************************************************************)
CH_QUOTE   == 39        \* '
CH_DQUOTE  == 34        \* "
CH_BSLASH  == 92        \* \
CH_PERCENT == 37        \* %

\* malloc(len * 4 + 3) on Unix, malloc(len * 2 + 3) on Windows.
EscapeAlloc(len, t) == IF t = "windows" THEN len * 2 + 3 ELSE len * 4 + 3

\* Variant of UnixEscaped: the quotation is not opened again after \'.
UnixEscaped_NotReopened(c) ==
    IF c = CH_QUOTE THEN << CH_QUOTE, CH_BSLASH, CH_QUOTE >> ELSE << c >>

\* What the Unix loop appends for input character c: '\'' for a quote.
UnixEscaped(c) ==
    IF c = CH_QUOTE THEN << CH_QUOTE, CH_BSLASH, CH_QUOTE, CH_QUOTE >> ELSE << c >>

\* What the Windows loop appends for input character c.
WinEscaped(c) ==
    IF c = CH_DQUOTE THEN << CH_BSLASH, CH_DQUOTE >>
    ELSE IF c = CH_PERCENT THEN << CH_PERCENT, CH_PERCENT >>
    ELSE << c >>

\* The string shell_escape returns when malloc succeeds (without the NUL).
shell_escape(s, t) ==
    IF t = "windows"
    THEN << CH_DQUOTE >> \o Concat([k \in 1..Len(s) |-> WinEscaped(s[k])]) \o << CH_DQUOTE >>
    ELSE << CH_QUOTE >> \o Concat([k \in 1..Len(s) |-> UnixEscaped(s[k])]) \o << CH_QUOTE >>

\* How a POSIX shell splits text into words (XCU 2.2 Quoting): outside
\* quotes a backslash makes the next character literal and blanks separate
\* words; between single quotes every character is literal; between double
\* quotes a backslash escapes only $ ` " and \.  mode is "plain", "single",
\* "double", or "esc" / "desc" after a backslash outside / inside double
\* quotes; cur is the word being built, open whether there is one.  The
\* result is the sequence of words, with status "words", or has status
\* "unterminated" when the text ends inside a quotation or after a
\* backslash.  Expansions are not modelled: an unquoted or double-quoted $
\* or ` gives status "expansion".
RECURSIVE ShWords(_, _, _, _, _, _)
ShWords(text, k, mode, cur, open, words) ==
    IF k > Len(text)
    THEN IF mode # "plain" THEN [status |-> "unterminated", words |-> << >>]
         ELSE [status |-> "words", words |-> IF open THEN Append(words, cur) ELSE words]
    ELSE
      LET c == text[k]
      IN  IF mode = "single"
          THEN IF c = CH_QUOTE THEN ShWords(text, k + 1, "plain", cur, TRUE, words)
               ELSE ShWords(text, k + 1, "single", Append(cur, c), TRUE, words)
          ELSE IF mode = "esc"
          THEN ShWords(text, k + 1, "plain", Append(cur, c), TRUE, words)
          ELSE IF mode = "desc"
          THEN IF c \in {36, 96, CH_DQUOTE, CH_BSLASH}
               THEN ShWords(text, k + 1, "double", Append(cur, c), TRUE, words)
               ELSE ShWords(text, k + 1, "double", cur \o << CH_BSLASH, c >>, TRUE, words)
          ELSE IF mode = "double"
          THEN IF c = CH_DQUOTE THEN ShWords(text, k + 1, "plain", cur, TRUE, words)
               ELSE IF c = CH_BSLASH THEN ShWords(text, k + 1, "desc", cur, TRUE, words)
               ELSE IF c \in {36, 96} THEN [status |-> "expansion", words |-> << >>]
               ELSE ShWords(text, k + 1, "double", Append(cur, c), TRUE, words)
          ELSE IF c = CH_QUOTE THEN ShWords(text, k + 1, "single", cur, TRUE, words)
          ELSE IF c = CH_DQUOTE THEN ShWords(text, k + 1, "double", cur, TRUE, words)
          ELSE IF c = CH_BSLASH THEN ShWords(text, k + 1, "esc", cur, TRUE, words)
          ELSE IF c \in {36, 96} THEN [status |-> "expansion", words |-> << >>]
          ELSE IF c = CH_SPACE
          THEN ShWords(text, k + 1, "plain", << >>, FALSE,
                       IF open THEN Append(words, cur) ELSE words)
          ELSE ShWords(text, k + 1, "plain", Append(cur, c), TRUE, words)

ShellWords(text) == ShWords(text, 1, "plain", << >>, FALSE, << >>)

\* The characters of the strings escaped: a letter, the quote characters,
\* the backslash, the percent sign, the blank and the dollar sign.
EscapeChars == { 97, CH_QUOTE, CH_DQUOTE, CH_BSLASH, CH_PERCENT, CH_SPACE, 36 }
EscapeInputs == UNION { [1..m -> EscapeChars] : m \in 0..MaxInputLen }

\* One call of shell_escape(input): NULL when malloc fails.
EscapeCall ==
    /\ pc = "esc_call"
    /\ \E ok \in BOOLEAN :
         IF ok
         THEN /\ escaped' = shell_escape(input, target)
              /\ pc' = "esc_done"
         ELSE /\ escaped' = << >>
              /\ pc' = "esc_null"
    /\ UNCHANGED << exit_status, err, scale, argv, bpm, rows_per_beat, pattern_rows, listing,
                    dir, samples, n, i, speed, vt_num, vt_den, buf, ptr_table_off,
                    post_order_off, adir_off, comp, out, heap, io, blocks, target,
                    file_data, offset, st, reads, steps, total_slices, ran, printed, input >>

NextEscape == EscapeCall

InitEscape ==
    /\ MainIdle("escape", "esc_call")
    /\ target \in {"linux", "windows"}
    /\ input \in EscapeInputs
    /\ file_data = << >> /\ offset = WideOf(0) /\ st = ScanInit /\ reads = {} /\ steps = 0
    /\ total_slices = 0 /\ ran = << >> /\ printed = << >>
    /\ escaped = << >>

SpecEscape == InitEscape /\ [][NextEscape]_vars

(***************************************************************************)
(* slicer.c: main.  bpm, rows_per_beat and pattern_rows hold the parsed    *)
(* arguments, input the file name, escaped the escaped file name, i the    *)
(* loop index.  ran records each system() call: the slice index, the file  *)
(* name and path formatted for it, the two escaped words of the command    *)
(* and the status returned.  printed records the progress and warning      *)
(* lines; the diagnostic that ends a run is in err.  The strings explored  *)
(* are far shorter than the buffers they are formatted into.               *)
(***************************************************************************)
STR_DEC == << 68, 69, 67 >>                                \* "DEC"
STR_HEX == << 72, 69, 88 >>                                \* "HEX"

\* The checks of main() up to stat(): status -1 means the run goes on.
SlicerArgs(av) ==
    LET argc == Len(av) + 1
        stop(status, why) == [status |-> status, why |-> why, bpm |-> NoNumber,
                              rows_per_beat |-> 0, pattern_rows |-> 0]
    IN  IF argc = 2 /\ (av[1] = STR_HELP \/ av[1] = STR_H) THEN stop(0, "help")
        ELSE IF argc < 8 THEN stop(1, "insufficient_arguments")
        ELSE IF av[5] # STR_DEC /\ av[5] # STR_HEX THEN stop(1, "bad_naming_mode")
        ELSE IF ArgRejected(strtod(av[2])) THEN stop(1, "bad_bpm")
        ELSE IF ArgRejected(strtol(av[3])) THEN stop(1, "bad_rows_per_beat")
        ELSE IF ArgRejected(strtol(av[4])) THEN stop(1, "bad_pattern_rows")
        ELSE [status |-> -1, why |-> "",
              bpm |-> [num |-> strtod(av[2]).num, den |-> strtod(av[2]).den],
              rows_per_beat |-> strtol(av[3]).num, pattern_rows |-> strtol(av[4]).num]

\* (int) floor(total_duration / slice_duration + 1e-9), where slice_duration
\* is 60 / BPM / rows_per_beat * pattern_rows.  The quotient is computed
\* exactly; the durations and tempi explored are binary fractions, for which
\* the double arithmetic is exact and 1e-9 does not reach the next integer.
TotalSlices(total_duration, b, rpb, rows) ==
    (total_duration.num * b.num * rpb) \div (total_duration.den * b.den * 60 * rows)

\* The digits of v in the given base, upper-case for the hexadecimal ones.
RECURSIVE Digits(_, _)
Digits(v, base) ==
    LET d == v % base
        c == IF d < 10 THEN CH_0 + d ELSE 55 + d
    IN  IF v < base THEN << c >> ELSE Append(Digits(v \div base, base), c)

\* %02d / %02X of slice index k.
SliceNumber(k, naming_mode) ==
    LET ds == Digits(k, IF naming_mode = STR_DEC THEN 10 ELSE 16)
    IN  IF Len(ds) < 2 THEN << CH_0 >> \o ds ELSE ds

\* The file name of slice k: prefix, "_" if there is a prefix, number, ".wav".
SliceName(k, naming_mode, slice_prefix) ==
    slice_prefix \o (IF Len(slice_prefix) > 0 THEN << 95 >> ELSE << >>)
        \o SliceNumber(k, naming_mode) \o STR_DOTWAV

\* filepath: the output directory, the separator of the platform, the name.
SlicePath(k, naming_mode, output_dir, slice_prefix, t) ==
    output_dir \o (IF t = "windows" THEN << CH_BSLASH >> ELSE << 47 >>)
        \o SliceName(k, naming_mode, slice_prefix)

\* Variant of SliceFailed: the status of the command is not looked at.
SliceFailed_Never(ret) == FALSE

\* if (ret != 0)
SliceFailed(ret) == ret # 0

\* Command lines: none, help, the five arguments of the usage text in the
\* file header, and seven arguments with valid and invalid values.
SL_FILE  == << 109, 46, 119, 97, 118 >>                    \* "m.wav"
SL_QFILE == << 105, 116, 39, 115 >>                        \* "it's"
SL_OUT   == << 111, 117, 116 >>                            \* "out"
SlicerArgvPool ==
    { << >>, << STR_HELP >>, << STR_H >> }
    \cup { << SL_FILE, << 49, 50, 48 >>, << 52 >>, << 54, 52 >>, m >> : m \in { STR_DEC, STR_HEX } }
    \cup { << f, b, r, p, m, SL_OUT, x >> :
             f \in { SL_FILE, SL_QFILE },
             b \in { << 49, 50, 48 >>, << 48 >> },                     \* "120", "0"
             r \in { << 52 >>, << 120 >> },                            \* "4", "x"
             p \in { << 54, 52 >>, << 48 >> },                         \* "64", "0"
             m \in { STR_DEC, STR_HEX, << 79, 67, 84 >> },             \* .., "OCT"
             x \in { << >>, << 115 >> } }                              \* "", "s"

\* What ffprobe may print as the duration: "4", "8.5", "24", "808", "960"
\* and "N/A".
DurationTexts ==
    { << 52 >>, << 56, 46, 53 >>, << 50, 52 >>, << 56, 48, 56 >>, << 57, 54, 48 >>,
      << 78, 47, 65 >> }
ProbeFailures == { "alloc_fails", "popen_fails", "fgets_fails", "status_nonzero" }

\* The argument checks and stat(FILENAME).
SlCheckArgs ==
    /\ pc = "sl_args"
    /\ LET r == SlicerArgs(argv)
       IN  IF r.status # -1
           THEN Exit(r.status, r.why) /\ UNCHANGED << bpm, rows_per_beat, pattern_rows, input >>
           ELSE /\ bpm' = r.bpm
                /\ rows_per_beat' = r.rows_per_beat
                /\ pattern_rows' = r.pattern_rows
                /\ input' = argv[1]
                /\ \E found \in BOOLEAN :
                     IF found THEN pc' = "sl_probe" /\ UNCHANGED << exit_status, err >>
                     ELSE Exit(1, "input_not_found")
    /\ UNCHANGED << scale, argv, listing, dir, samples, n, i, speed, vt_num, vt_den, buf,
                    ptr_table_off, post_order_off, adir_off, comp, out, heap, io, blocks,
                    target, file_data, offset, st, reads, steps, total_slices, ran,
                    printed, escaped >>

\* get_audio_duration(FILENAME), the slice count, the range warning and the
\* three lines that report the figures.
SlProbe ==
    /\ pc = "sl_probe"
    /\ \E o \in ProbeFailures \cup DurationTexts :
         LET duration == IF o \in ProbeFailures THEN NoNumber ELSE strtod(o)
             total    == TotalSlices(duration, bpm, rows_per_beat, pattern_rows)
             warn     == IF argv[5] = STR_DEC /\ total > 100 THEN << "warn_decimal_range" >>
                         ELSE IF argv[5] = STR_HEX /\ total > 256 THEN << "warn_hex_range" >>
                         ELSE << >>
         IN  IF ~(duration.num > 0)
             THEN Exit(1, "no_duration") /\ UNCHANGED << total_slices, printed >>
             ELSE /\ total_slices' = total
                  /\ IF total <= 0
                     THEN Exit(1, "no_slices") /\ UNCHANGED printed
                     ELSE /\ printed' = printed \o warn
                                 \o << "total_duration", "slice_duration", "total_slices" >>
                          /\ pc' = "sl_mkdir"
                          /\ UNCHANGED << exit_status, err >>
    /\ UNCHANGED << scale, argv, bpm, rows_per_beat, pattern_rows, listing, dir, samples, n, i,
                    speed, vt_num, vt_den, buf, ptr_table_off, post_order_off, adir_off,
                    comp, out, heap, io, blocks, target, file_data, offset, st, reads,
                    steps, ran, input, escaped >>

\* mkdir(output_dir), three more lines, and the escaped input file name.
SlMkdir ==
    /\ pc = "sl_mkdir"
    /\ \E m \in { "created", "exists", "fails" }, ok \in BOOLEAN :
         IF m = "fails"
         THEN Exit(1, "mkdir_failed") /\ UNCHANGED << printed, escaped, i >>
         ELSE /\ printed' = printed \o << "input_file", "output_directory", "slice_prefix" >>
              /\ IF ~ok
                 THEN Exit(1, "alloc_failed") /\ UNCHANGED << escaped, i >>
                 ELSE /\ escaped' = shell_escape(input, target)
                      /\ i' = 0
                      /\ pc' = "sl_slice"
                      /\ UNCHANGED << exit_status, err >>
    /\ UNCHANGED << scale, argv, bpm, rows_per_beat, pattern_rows, listing, dir, samples, n,
                    speed, vt_num, vt_den, buf, ptr_table_off, post_order_off, adir_off,
                    comp, out, heap, io, blocks, target, file_data, offset, st, reads,
                    steps, total_slices, ran, input >>

\* One iteration of for (i = 0; i < total_slices; i++).
SlSlice ==
    /\ pc = "sl_slice"
    /\ i < total_slices
    /\ LET name     == SliceName(i, argv[5], argv[7])
           filepath == SlicePath(i, argv[5], argv[6], argv[7], target)
       IN  \E ok \in BOOLEAN, ret \in { 0, 256 } :
             IF ~ok
             THEN Exit(1, "alloc_failed") /\ UNCHANGED << ran, printed, i >>
             ELSE /\ ran' = Append(ran, [index |-> i, name |-> name, filepath |-> filepath,
                                         command |-> << escaped, shell_escape(filepath, target) >>,
                                         ret |-> ret])
                  /\ IF SliceFailed(ret)
                     THEN /\ printed' = printed \o << "processing_slice", "error_processing_slice" >>
                          /\ Exit(1, "slice_failed")
                          /\ UNCHANGED i
                     ELSE /\ printed' = Append(printed, "processing_slice")
                          /\ i' = i + 1
                          /\ UNCHANGED << pc, exit_status, err >>
    /\ UNCHANGED << scale, argv, bpm, rows_per_beat, pattern_rows, listing, dir, samples, n,
                    speed, vt_num, vt_den, buf, ptr_table_off, post_order_off, adir_off,
                    comp, out, heap, io, blocks, target, file_data, offset, st, reads,
                    steps, total_slices, input, escaped >>

\* The loop has ended: the success line, return 0.
SlDone ==
    /\ pc = "sl_slice"
    /\ ~(i < total_slices)
    /\ printed' = Append(printed, "all_slices_processed")
    /\ Exit(0, "")
    /\ UNCHANGED << scale, argv, bpm, rows_per_beat, pattern_rows, listing, dir, samples, n, i,
                    speed, vt_num, vt_den, buf, ptr_table_off, post_order_off, adir_off,
                    comp, out, heap, io, blocks, target, file_data, offset, st, reads,
                    steps, total_slices, ran, input, escaped >>

NextSlicer == SlCheckArgs \/ SlProbe \/ SlMkdir \/ SlSlice \/ SlDone

InitSlicer ==
    /\ scale = "slicer"
    /\ argv \in SlicerArgvPool
    /\ pc = "sl_args"
    /\ exit_status = -1
    /\ err = ""
    /\ bpm = NoNumber /\ rows_per_beat = 0 /\ pattern_rows = 0
    /\ listing = << >> /\ dir = << >>
    /\ samples = << >> /\ n = 0 /\ i = 0
    /\ speed = 0 /\ vt_num = 0 /\ vt_den = 0
    /\ buf = NoBuffer
    /\ ptr_table_off = 0 /\ post_order_off = 0
    /\ adir_off = << 0, 0, 0 >>
    /\ comp = << >>
    /\ out = [opened |-> FALSE, bytes |-> << >>, complete |-> FALSE]
    /\ heap = {}
    /\ io = [dirOpened |-> FALSE, filesRead |-> {}, lastRead |-> << >>, warned |-> FALSE]
    /\ blocks = << >>
    /\ target \in {"linux", "windows"}
    /\ file_data = << >> /\ offset = WideOf(0) /\ st = ScanInit /\ reads = {} /\ steps = 0
    /\ total_slices = 0 /\ ran = << >> /\ printed = << >>
    /\ input = << >> /\ escaped = << >>

SpecSlicer == InitSlicer /\ [][NextSlicer]_vars


(***************************************************************************)
(* Properties.                                                             *)
(***************************************************************************)
\* The output buffer exists and holds (part of) the container.
BufferLive == pc \in {"adir", "ins2", "smp2", "patn", "compress", "output"}

\* Every block has been appended and every patch of main() applied.
Assembled == pc \in {"compress", "output"}

\* The blocks of one kind, in the order they were appended.
BlocksOfKind(kind) == SelectSeq(blocks, LAMBDA b : b.kind = kind)

RoleKind(role) == IF role = 0 THEN "INS2" ELSE IF role = 1 THEN "SMP2" ELSE "PATN"
KindTag(kind) ==
    IF kind = "INFO" THEN STR_INFO ELSE IF kind = "ADIR" THEN STR_ADIR
    ELSE IF kind = "INS2" THEN STR_INS2 ELSE IF kind = "SMP2" THEN STR_SMP2
    ELSE STR_PATN

\* C1: once the container is assembled, for every role (0 instrument,
\* 1 sample, 2 pattern) and every item i < N, the 4 bytes at
\* ptr_table_off + 4*N*role + 4*i are the offset at which the i-th block of
\* that role starts, and the block's tag is at that offset.
C1_PointerTable ==
    Assembled =>
        /\ n \in 1..MAX_SAMPLES
        /\ \A role \in 0..2 :
             LET bs == BlocksOfKind(RoleKind(role))
             IN  /\ Len(bs) = n
                 /\ \A k \in 0..(n - 1) :
                      LET v == rd32(buf.data, ptr_table_off + 4 * n * role + 4 * k)
                      IN  /\ v = bs[k + 1].start
                          /\ TagAt(buf.data, v, KindTag(RoleKind(role)))

C1_Witness ==
    /\ Assembled
    /\ n = 3
    /\ rd32(buf.data, ptr_table_off + 4 * n * 2 + 4 * (n - 1)) = blocks[Len(blocks)].start

\* The offsets of the pointer placeholders reserved by write_info: the 3N
\* pointer-table slots and the three directory pointers of the trailer.
Placeholders ==
    { ptr_table_off + 4 * k : k \in 0..(3 * n - 1) }
    \cup { post_order_off + 248, post_order_off + 252, post_order_off + 256 }

PatchesAt(off) == IF off \in DOMAIN buf.patches THEN buf.patches[off] ELSE << >>

\* The block a placeholder is reserved for: directory pointer r refers to
\* the r-th ADIR block, pointer-table slot j to the j-th block after them.
BlockIndexOf(s) ==
    IF s >= post_order_off THEN 2 + ((s - post_order_off - 248) \div 4)
    ELSE 5 + ((s - ptr_table_off) \div 4)

\* C2: no pointer placeholder is ever patched twice; each patch of a
\* placeholder stores the start of a block that was completely appended
\* when the patch was made; once the container is assembled every
\* placeholder has been patched exactly once.
C2_PatchedOnce ==
    (pc \notin {"args", "opendir", "readdir", "closedir", "load", "build"} /\ blocks # << >>) =>
        \A s \in Placeholders :
            LET ps == PatchesAt(s)
            IN  /\ Len(ps) <= 1
                /\ (Assembled => Len(ps) = 1)
                /\ \A x \in 1..Len(ps) :
                     /\ ps[x].n = 4
                     /\ BlockIndexOf(s) <= Len(blocks)
                     /\ U32LE(blocks[BlockIndexOf(s)].start) = ps[x].bytes
                     /\ blocks[BlockIndexOf(s)].end <= ps[x].len

C2_Witness ==
    /\ Assembled
    /\ n = 3
    /\ \A s \in Placeholders : Len(PatchesAt(s)) = 1

\* C3: every block appended so far carries its tag at its start and, in the
\* 4 bytes after the tag, exactly the number of payload bytes; the blocks
\* are contiguous from the INFO block to the end of the buffer, so payload
\* start + declared size is the next block's tag or the end of the buffer.
C3_BlockSizes ==
    (BufferLive /\ n \in 1..MAX_SAMPLES) =>
        /\ Len(blocks) >= 1
        /\ blocks[Len(blocks)].end = buf.len
        /\ \A y \in 1..Len(blocks) :
             /\ TagAt(buf.data, blocks[y].start, KindTag(blocks[y].kind))
             /\ blocks[y].start + 8 + rd32(buf.data, blocks[y].start + 4) = blocks[y].end
             /\ (y < Len(blocks) => blocks[y].end = blocks[y + 1].start)

C3_Witness ==
    /\ Assembled
    /\ n = 2
    /\ Len(blocks) = 4 + 3 * n
    /\ \E y \in 1..Len(blocks) :
         blocks[y].kind = "SMP2" /\ rd32(buf.data, blocks[y].start + 4) > 38

\* C4: in the assembled container the counts of the INFO header (ordersLen,
\* insCount, smpCount, patCount at payload offsets 0x0A, 0x0E, 0x12, 0x14)
\* are N and wavCount (0x10) is 0, and the blocks after the INFO block are
\* three directory blocks, N INS2, N SMP2 and N PATN blocks, in this order.
InfoField(off) == rd16(buf.data, blocks[1].start + 8 + off)

C4_Counts ==
    Assembled =>
        /\ n \in 1..MAX_SAMPLES
        /\ blocks[1].kind = "INFO"
        /\ InfoField(10) = n
        /\ InfoField(14) = Len(BlocksOfKind("INS2"))
        /\ InfoField(16) = 0
        /\ InfoField(18) = Len(BlocksOfKind("SMP2"))
        /\ InfoField(20) = Len(BlocksOfKind("PATN"))
        /\ Len(blocks) = 4 + 3 * n
        /\ \A y \in 1..Len(blocks) :
             /\ blocks[y].kind =
                  (IF y = 1 THEN "INFO" ELSE IF y <= 4 THEN "ADIR"
                   ELSE IF y <= 4 + n THEN "INS2" ELSE IF y <= 4 + 2 * n THEN "SMP2"
                   ELSE "PATN")
             /\ TagAt(buf.data, blocks[y].start, KindTag(blocks[y].kind))

C4_Witness ==
    /\ Assembled
    /\ n = 2
    /\ InfoField(14) = 2
    /\ Len(BlocksOfKind("PATN")) = 2

\* C5: the buffer starts with the 16-byte magic, the version 228, a zero
\* reserved field, the offset of the INFO block and 8 zero bytes; the stored
\* offset is where the INFO tag is.
C5_FileHeader ==
    BufferLive =>
        /\ SubSeq(buf.data, 1, 16) = STR_MAGIC
        /\ rd16(buf.data, 16) = 228
        /\ rd16(buf.data, 18) = 0
        /\ rd32(buf.data, 20) = blocks[1].start
        /\ blocks[1].kind = "INFO"
        /\ TagAt(buf.data, rd32(buf.data, 20), STR_INFO)
        /\ SubSeq(buf.data, 25, 32) = << 0, 0, 0, 0, 0, 0, 0, 0 >>

C5_Witness ==
    /\ pc = "output"
    /\ rd32(buf.data, 20) = 32
    /\ TagAt(buf.data, 32, STR_INFO)


\* An entry name that names an audio slice: at least five characters, the
\* last four ".wav" in any letter case.
EndsInWav(fn) ==
    /\ Len(fn) >= 5
    /\ << ToLower(fn[Len(fn) - 3]), ToLower(fn[Len(fn) - 2]),
          ToLower(fn[Len(fn) - 1]), ToLower(fn[Len(fn)]) >> = << 46, 119, 97, 118 >>

AudioEntries(l) == SelectSeq(l, EndsInWav)
FileNames(recs) == [k \in 1..Len(recs) |-> recs[k].filename]

\* The sample list obtained from the audio entries of listing l when all of
\* them are sorted by name and the first MAX_SAMPLES kept: what a listing in
\* ascending name order yields, hence the only list that can be the same for
\* every listing order.
CanonicalNames(l) ==
    LET a == AudioEntries(l)
        sorted == FileNames(qsort([k \in 1..Len(a) |-> NewSample(a[k])]))
    IN  SubSeq(sorted, 1, Min(Len(sorted), MAX_SAMPLES))

\* C6: the ordered sample list built from a directory depends on the
\* directory's content only, not on the order in which readdir returns it.
C6_OrderIndependent ==
    (pc = "load" /\ i = 0) => FileNames(samples) = CanonicalNames(listing)

\* C7: from a directory with more than MAX_SAMPLES audio files, the scan
\* keeps exactly MAX_SAMPLES records, all of them files of the directory, in
\* strictly ascending name order; no other file is read, and the run goes on
\* (it does not end for want of samples).
C7_TruncatedScan ==
    (/\ pc \notin {"args", "opendir", "readdir", "closedir"}
     /\ Len(listing) > MAX_SAMPLES
     /\ Len(AudioEntries(listing)) > MAX_SAMPLES) =>
        /\ n = MAX_SAMPLES
        /\ Len(samples) = MAX_SAMPLES
        /\ \A k \in 1..(MAX_SAMPLES - 1) :
             strcmp(samples[k].filename, samples[k + 1].filename) < 0
        /\ { samples[k].filename : k \in 1..MAX_SAMPLES }
               \subseteq { listing[x] : x \in 1..Len(listing) }
        /\ io.filesRead \subseteq { samples[k].filename : k \in 1..MAX_SAMPLES }
        /\ err # "no_wav_files"

C7_Witness ==
    /\ pc = "load"
    /\ i = 0
    /\ Len(AudioEntries(listing)) = MAX_SAMPLES + 1
    /\ n = MAX_SAMPLES
    /\ listing[1] = BigName(MAX_SAMPLES)

\* A file image with the canonical layout (format chunk at offset 12) that
\* has a bad RIFF or WAVE tag, a non-PCM encoding, a channel count other
\* than 1 or a bit depth other than 8 or 16.
HasFormatDefect(f) ==
    /\ Len(f) >= 44
    /\ \/ SubSeq(f, 1, 4) # << 82, 73, 70, 70 >>
       \/ SubSeq(f, 9, 12) # << 87, 65, 86, 69 >>
       \/ /\ SubSeq(f, 13, 16) = << 102, 109, 116, 32 >>
          /\ \/ rd16(f, 20) # 1
             \/ rd16(f, 22) # 1
             \/ rd16(f, 34) \notin {8, 16}

\* C8: once a file with a format defect has been read, the run has ended
\* with status 1, the output file has not been opened or written, and no
\* sample's PCM memory is still allocated.
C8_FormatErrorAborts ==
    HasFormatDefect(io.lastRead) =>
        /\ pc = "exit"
        /\ exit_status = 1
        /\ ~out.opened
        /\ out.bytes = << >>
        /\ \A j \in 0..(MAX_SAMPLES - 1) : PcmOf(j) \notin heap

C8_Witness ==
    /\ HasFormatDefect(io.lastRead)
    /\ pc = "exit"
    /\ err = "not_mono"
    /\ i >= 1

\* C9: when the directory that was opened holds no audio entry, the run
\* ends with status 1; no input file is read, no container is built and the
\* output file is not created.
C9_EmptyDirFatal ==
    (/\ pc \notin {"args", "opendir", "readdir", "closedir"}
     /\ io.dirOpened
     /\ AudioEntries(listing) = << >>) =>
        /\ pc = "exit"
        /\ exit_status = 1
        /\ io.filesRead = {}
        /\ buf = NoBuffer
        /\ blocks = << >>
        /\ ~out.opened

C9_Witness ==
    /\ pc = "exit"
    /\ err = "no_wav_files"
    /\ Len(listing) >= 2
    /\ exit_status = 1

\* A decimal numeral greater than zero: digits, for BPM with at most one
\* radix point, at least one of them not 0.
PositiveNumeral(s, allowPoint) ==
    /\ Len(s) > 0
    /\ \A x \in 1..Len(s) : (s[x] >= 48 /\ s[x] <= 57) \/ (allowPoint /\ s[x] = 46)
    /\ Cardinality({ x \in 1..Len(s) : s[x] = 46 }) <= 1
    /\ \E x \in 1..Len(s) : s[x] >= 49 /\ s[x] <= 57

IsHelp(av) == Len(av) = 1 /\ (av[1] = << 45, 45, 104, 101, 108, 112 >> \/ av[1] = << 45, 104 >>)

\* The command line lacks BPM, rows_per_beat or pattern_rows, or one of them
\* is not a positive numeral (an integer for the two row counts).
ArgumentError(av) ==
    /\ ~IsHelp(av)
    /\ \/ Len(av) < 4
       \/ ~PositiveNumeral(av[2], TRUE)
       \/ ~PositiveNumeral(av[3], FALSE)
       \/ ~PositiveNumeral(av[4], FALSE)

EarlyFailures ==
    { "insufficient_args", "bad_bpm", "bad_rows_per_beat", "bad_pattern_rows",
      "cannot_open_dir", "no_wav_files", "buf_alloc_failed",
      "comp_alloc_failed", "zlib_failed" }
    \cup { "cannot_open", "alloc_failed", "read_failed", "pcm_alloc_failed" }
    \cup FormatErrors

\* C11: the step that opens the output file is taken from a state in which
\* every sample is loaded, all 4 + 3N blocks are appended, every pointer
\* placeholder is patched and the staging buffer holds the compressed image
\* of the whole buffer; a run ended by a compression failure or an earlier
\* failure has exit status 1 and has not created or written the output file.
C11_OutputLast ==
    /\ [][ (out'.opened /\ ~out.opened) =>
              /\ pc = "output"
              /\ n >= 1 /\ Len(samples) = n
              /\ \A k \in 1..n : samples[k].pcm_len > 0 /\ PcmOf(k - 1) \in heap
              /\ Len(blocks) = 4 + 3 * n
              /\ blocks[Len(blocks)].kind = "PATN"
              /\ blocks[Len(blocks)].end = buf.len
              /\ \A sl \in Placeholders : Len(PatchesAt(sl)) = 1
              /\ buf.len > 0
              /\ comp = Deflate(buf.data)
              /\ out'.bytes = comp ]_vars
    /\ []( (pc = "exit" /\ err \in EarlyFailures) => (exit_status = 1 /\ ~out.opened) )
    /\ []( (pc # "exit") => ~out.opened )

C11_Witness ==
    /\ pc = "exit"
    /\ exit_status = 0
    /\ n = 2
    /\ out.opened /\ out.complete
    /\ out.bytes = comp

\* C12: when the process has exited, no allocation is live: every loaded
\* sample's PCM buffer, the output buffer and the compression staging
\* buffer have been freed.
C12_AllReleased ==
    pc = "exit" => heap = {}

\* C13: the numerator stored at post-order offset 0x26 is the truncated
\* integer BPM and the denominator stored at offset 0x28 is 3600 divided by
\* rows_per_beat squared, rounded; BPM 120 with rows_per_beat 4 gives 120/225.
C13_TempoPair ==
    (Assembled /\ bpm.num > 0 /\ rows_per_beat > 0) =>
        /\ rd16(buf.data, post_order_off + PO_VT_NUM) = TruncToInt(bpm)
        /\ rd16(buf.data, post_order_off + PO_VT_DEN)
               = RoundDiv(3600, rows_per_beat * rows_per_beat)
        /\ (bpm = [num |-> 120, den |-> 1] /\ rows_per_beat = 4) =>
               /\ rd16(buf.data, post_order_off + PO_VT_NUM) = 120
               /\ rd16(buf.data, post_order_off + PO_VT_DEN) = 225

\* C14: for an integer BPM the stored pair scales the base tempo
\* 3600 / rows_per_beat^2 to the BPM:
\* 3600 * numerator = BPM * denominator * rows_per_beat^2.
C14_ReproducesBpm ==
    (Assembled /\ bpm.den = 1 /\ bpm.num > 0 /\ rows_per_beat > 0) =>
        3600 * rd16(buf.data, post_order_off + PO_VT_NUM)
          = bpm.num * rd16(buf.data, post_order_off + PO_VT_DEN)
              * rows_per_beat * rows_per_beat
\* The offsets at which the chunks of file image fd start, following the
\* declared sizes from offset 12 (odd sizes are padded to even).
RECURSIVE ChunkStarts(_, _)
ChunkStarts(fd, off) ==
    IF off + 8 > Len(fd) THEN {}
    ELSE {off} \cup
         (IF rd32big(fd, off + 4) THEN {}
          ELSE ChunkStarts(fd, off + 8 + rd32(fd, off + 4) + (rd32(fd, off + 4) % 2)))

\* A format or data chunk of fd declares a size that reaches past the end
\* of the file.
ChunkOverrun(fd) ==
    \E off \in ChunkStarts(fd, 12) :
        /\ TagAt(fd, off, STR_FMT) \/ TagAt(fd, off, STR_DATA)
        /\ rd32big(fd, off + 4) \/ off + 8 + rd32(fd, off + 4) > Len(fd)

\* C19: when the file just read has a format chunk or a data chunk whose
\* declared size extends past the end of the file, read_wav has failed and
\* the run has ended with status 1.
C19_ChunkBounds ==
    (Len(io.lastRead) >= WAV_HEADER_MIN /\ ChunkOverrun(io.lastRead)) =>
        (pc = "exit" /\ exit_status = 1)
\* The offsets main() and the block writers patch: the size fields of the
\* INFO, INS2 and SMP2 blocks, the two virtual-tempo fields and the pointer
\* placeholders.
SizeSlots ==
    { blocks[y].start + 4 : y \in { x \in 1..Len(blocks) :
                                       blocks[x].kind \in {"INFO", "INS2", "SMP2"} } }
TempoSlots == { post_order_off + PO_VT_NUM, post_order_off + PO_VT_DEN }

\* C16: every patch applied so far lay entirely below the length the buffer
\* had when it was applied, and the patches added no byte: the buffer ends
\* where the last appended block ends.  Once the container is assembled the
\* patched offsets are exactly the size fields, the two tempo fields, the
\* three directory pointers and the 3N pointer-table slots.
C16_PatchesInside ==
    BufferLive =>
        /\ \A off \in DOMAIN buf.patches :
             \A x \in 1..Len(buf.patches[off]) :
                 LET q == buf.patches[off][x]
                 IN  /\ off >= 0
                     /\ off + q.n <= q.len
                     /\ q.len <= buf.len
                     /\ SubSeq(buf.data, off + 1, off + q.n) = q.bytes
        /\ Len(buf.data) = buf.len
        /\ blocks[Len(blocks)].end = buf.len
        /\ SizeSlots \cup TempoSlots \subseteq DOMAIN buf.patches
        /\ (Assembled =>
               DOMAIN buf.patches = SizeSlots \cup TempoSlots \cup Placeholders)

C16_Witness ==
    /\ Assembled
    /\ n = 2
    /\ Cardinality(DOMAIN buf.patches) = 3 * n + 3 + 2 + 1 + 2 * n

C20_SampleMap ==
    Assembled =>
        /\ n \in 1..MAX_SAMPLES
        /\ \A k \in 0..(n - 1) :
             LET blk == blocks[5 + k]
                 na  == blk.start + 8 + 4
                 sm  == na + 4 + rd16(buf.data, na + 2)
             IN  /\ blk.kind = "INS2" /\ blk.index = k
                 /\ SubSeq(buf.data, na + 1, na + 2) = STR_NA
                 /\ SubSeq(buf.data, sm + 1, sm + 2) = STR_SM
                 /\ rd16(buf.data, sm + 2) = 4 + 4 * SM_ENTRIES
                 /\ \A e \in 0..(SM_ENTRIES - 1) :
                      /\ rd16(buf.data, sm + 8 + 4 * e) = 48
                      /\ rd16(buf.data, sm + 8 + 4 * e + 2) = k
                 /\ SubSeq(buf.data, sm + 8 + 4 * SM_ENTRIES + 1,
                                     sm + 8 + 4 * SM_ENTRIES + 2) = STR_NE
        /\ \A k \in 0..(n - 1) : buf.data[ptr_table_off + 12 * n + k + 1] = k
        /\ ptr_table_off + 12 * n + n = post_order_off

C20_Witness ==
    /\ Assembled
    /\ n = 3
    /\ buf.data[ptr_table_off + 12 * n + 3] = 2
    /\ rd16(buf.data, blocks[7].end - 249) = 2
C22_WarningMeansDropped ==
    io.warned => Len(AudioEntries(listing)) > MAX_SAMPLES

\* C23: for every accepted rows_per_beat the denominator stored at post-order
\* offset 0x28 is at least 1, and it is the rounded quotient itself, which
\* fits 16 bits.
C23_DenominatorPositive ==
    (Assembled /\ rows_per_beat > 0) =>
        /\ rd16(buf.data, post_order_off + PO_VT_DEN) >= 1
        /\ RoundDiv(60 * 60, rows_per_beat * rows_per_beat) < 65536
        /\ rd16(buf.data, post_order_off + PO_VT_DEN)
               = RoundDiv(60 * 60, rows_per_beat * rows_per_beat)

\* C24: in every sample block written, the number of PCM bytes that follow
\* the 40 bytes of fixed fields equals the frame count the block declares
\* times the bytes per sample of the depth it declares.
C24_PcmMatchesFrames ==
    \A k \in DOMAIN blocks :
        blocks[k].kind = "SMP2" =>
            LET fields == blocks[k].start + 8 + Len(samples[blocks[k].index + 1].name) + 1
                frames == rd32(buf.data, fields)
                depth  == buf.data[fields + 12 + 1]
            IN  blocks[k].end - (fields + 40) = frames * (depth \div 8)

\* C25: read_wav reads the file image inside [0, fsize) only, whatever sizes
\* the chunks declare: the chunk headers, the format fields, the PCM copy.
C25_ReadsInsideImage ==
    (scale = "scan" /\ Len(file_data) >= WAV_HEADER_MIN) =>
        \A r \in reads : 0 <= r[1] /\ r[1] <= r[2] /\ r[2] <= Len(file_data)

\* C26: each iteration of the chunk loop moves the scan offset forward by at
\* least 8, and the loop makes at most fsize / 8 iterations.
C26_ScanAdvances ==
    /\ [][ (scale = "scan" /\ pc = "wav_scan" /\ pc' = "wav_scan") =>
               WLe(WAdd(offset, WideOf(8)), offset') ]_vars
    /\ []( scale = "scan" => steps <= Len(file_data) \div 8 )

\* C27: when the text exporter derives a sample's frame count, both
\* divisors, bits_per_sample / 8 and the channel count, are non-zero.
C27_DivisorsNonZero ==
    (scale = "furnace" /\ (pc = "wav_loaded" \/ err = "division_by_zero")) =>
        /\ st.bits \div 8 # 0
        /\ st.chans # 0

\* C30: shell_escape writes, terminating NUL included, no more bytes than it
\* allocated, and on Unix a POSIX shell reads its result as one word, equal
\* to the input.
C30_EscapeRoundTrip ==
    (scale = "escape" /\ pc = "esc_done") =>
        /\ Len(escaped) + 1 <= EscapeAlloc(Len(input), target)
        /\ target = "linux" =>
               ShellWords(escaped) = [status |-> "words", words |-> << input >>]

\* An input of quotes only fills the Unix allocation to the last byte.
C30_Witness ==
    /\ scale = "escape" /\ pc = "esc_done" /\ target = "linux"
    /\ input = << CH_QUOTE, CH_QUOTE >>
    /\ Len(escaped) + 1 = EscapeAlloc(Len(input), target)

\* C21: given the five arguments of the documented invocation, valid, and an
\* existing input file, the slicer does not end with the
\* insufficient-arguments error.
C21_DocumentedInvocation ==
    (/\ scale = "slicer"
     /\ Len(argv) = 5
     /\ ~ArgRejected(strtod(argv[2]))
     /\ ~ArgRejected(strtol(argv[3]))
     /\ ~ArgRejected(strtol(argv[4]))
     /\ argv[5] \in { STR_DEC, STR_HEX }) =>
        err # "insufficient_arguments"

\* C28: once the slicer has produced all its files, at most MAX_SAMPLES of
\* them, sorting their names by fur_gen's comparison leaves them in slice
\* order.
C28_NamesSortInSliceOrder ==
    (scale = "slicer" /\ pc = "exit" /\ exit_status = 0 /\ argv # << >>
        /\ total_slices >= 1 /\ total_slices <= MAX_SAMPLES) =>
        LET names == [k \in 1..Len(ran) |-> ran[k].name]
        IN  /\ Len(ran) = total_slices
            /\ FileNames(qsort([k \in 1..Len(names) |-> NewSample(names[k])])) = names

\* C29: the extraction commands are run for the slices 0, 1, 2, ... in this
\* order, one each; a command that returns non-zero is the last one run and
\* ends the process with status 1; and the success line is printed only
\* after total_slices commands that all returned 0.
C29_SlicesInOrder ==
    scale = "slicer" =>
        /\ Len(ran) <= total_slices
        /\ \A k \in 1..Len(ran) :
             /\ ran[k].index = k - 1
             /\ ran[k].ret # 0 => (k = Len(ran) /\ pc = "exit" /\ exit_status = 1)
        /\ (\E k \in 1..Len(printed) : printed[k] = "all_slices_processed") =>
               /\ Len(ran) = total_slices
               /\ \A k \in 1..Len(ran) : ran[k].ret = 0

\* The second of three commands fails.
C29_Witness ==
    /\ scale = "slicer" /\ pc = "exit" /\ exit_status = 1
    /\ total_slices = 3
    /\ Len(ran) = 2
    /\ ran[1].ret = 0 /\ ran[2].ret # 0

=============================================================================
